---- MODULE Spec2Model ----
(***************************************************************************)
(* Model of the tactic-trainer front end: the bucket classifiers of the    *)
(* player heatmap (Heatmap.tsx) and of the difference heatmap              *)
(* (DifferenceHeatmap.tsx), the position replay of ChessBoardViewer, and   *)
(* the App component (App.tsx) with the fetches of the API client (api.ts). *)
(***************************************************************************)
EXTENDS Integers, Sequences, FiniteSets, TLC

VARIABLES
    \* ---- bucket classification (Heatmap / DifferenceHeatmap) ----
    binEvent,         \* the event handed to the cell filters
    binPhase,         \* "input" | "heat" | "both": which filters have run
    heatCells,        \* cells <<deltaIdx, tIdx>> whose Heatmap filter keeps binEvent
    diffCells,        \* cells whose DifferenceHeatmap filter keeps binEvent
    \* ---- App state the viewer depends on ----
    selectedEvents,   \* App.selectedEvents: the rows of the opened cell
    \* ---- ChessBoardViewer (props and useState cells) ----
    selectedError,    \* App.selectedError: the `error` prop, or NoError (unmounted)
    position,
    moveIndex,
    customArrows,
    currentEval,
    materialDiff,
    baselineMaterial,
    \* ---- history of the replay calls (observation only) ----
    lastOp,           \* the last call and the viewer state it started from
    prevOp,           \* the call before the last one, likewise
    advCalls,         \* handleNext calls since the reset, -1 once anything else ran
    \* ---- the grids (Heatmap and DifferenceHeatmap props, state and output) ----
    errors,           \* the player's collection (Heatmap errors, playerErrors)
    fieldErrors,      \* the field's collection
    viewMode,         \* Heatmap's viewMode: "count" | "percentage"
    heatGrid,         \* the rendered heatmap: per cell its value, colour and text
    diffGrid,         \* the rendered difference heatmap, likewise
    cellClick,        \* <<deltaIdx, tIdx>> of the last onCellClick call, <<0, 0>> if none
    gridLast,         \* the last event on the grid (observation only)
    \* ---- App (useState cells of App.tsx) and the fetches of api.ts ----
    players,          \* usernames of the loaded player list
    selectedPlayer,   \* "" until a player is selected
    loading,
    appError,         \* App's `error` cell: <<>> for null, else <<message>>
    analysisResult,   \* <<>> for null, else <<response data>>
    fieldAverageResult,
    minElo,
    maxElo,
    showEventDetails,
    inFlight,         \* the requests sent and not yet settled
    started,          \* number of requests sent so far
    appLast,          \* the last App step (observation only)
    newest            \* the player-analysis request sent last, and how it settled

binVars == <<binEvent, binPhase, heatCells, diffCells>>
viewerVars == <<selectedEvents, selectedError, position, moveIndex, customArrows, currentEval,
                materialDiff, baselineMaterial>>
histVars == <<lastOp, prevOp, advCalls>>
gridVars == <<errors, fieldErrors, viewMode, heatGrid, diffGrid, cellClick, gridLast>>
appVars == <<players, selectedPlayer, loading, appError, analysisResult, fieldAverageResult,
             minElo, maxElo, showEventDetails, inFlight, started, appLast,
             newest>>
vars == <<binVars, viewerVars, histVars, gridVars, appVars>>

----------------------------------------------------------------------------
(* JavaScript values used by the label parsers.  A JS number is modelled as *)
(* a record: a finite integer, NaN or Infinity.                             *)

Num(n) == [kind |-> "num", v |-> n]
NaN == [kind |-> "nan", v |-> 0]
Infinity == [kind |-> "inf", v |-> 0]

\* n >= b for an integer n and a JS number b (any comparison with NaN is false)
JsGe(n, b) ==
    CASE b.kind = "num" -> n >= b.v
      [] b.kind = "inf" -> FALSE
      [] OTHER -> FALSE

\* n < b
JsLt(n, b) ==
    CASE b.kind = "num" -> n < b.v
      [] b.kind = "inf" -> TRUE
      [] OTHER -> FALSE

\* b + 1
JsPlus1(b) == IF b.kind = "num" THEN Num(b.v + 1) ELSE b

\* Strings are sequences of one-character strings, so that they can be split.
Digits == <<"0", "1", "2", "3", "4", "5", "6", "7", "8", "9">>
IsDigit(c) == \E i \in 1..10 : Digits[i] = c
DigitVal(c) == (CHOOSE i \in 1..10 : Digits[i] = c) - 1

RECURSIVE DecimalValue(_)
DecimalValue(s) ==
    IF s = <<>> THEN 0
    ELSE 10 * DecimalValue(SubSeq(s, 1, Len(s) - 1)) + DigitVal(s[Len(s)])

\* Number(s) for a string of the label alphabet: "" is 0, digits are their
\* value, anything else is NaN; Number(undefined) is NaN.
Undefined == <<"undefined">>
Number(s) ==
    IF s = Undefined THEN NaN
    ELSE IF \A i \in 1..Len(s) : IsDigit(s[i]) THEN Num(DecimalValue(s))
    ELSE NaN

\* s.split('-')
RECURSIVE SplitDash(_)
SplitDash(s) ==
    IF \A i \in 1..Len(s) : s[i] # "-" THEN <<s>>
    ELSE LET p == CHOOSE i \in 1..Len(s) :
                     s[i] = "-" /\ \A j \in 1..(i - 1) : s[j] # "-"
         IN <<SubSeq(s, 1, p - 1)>> \o SplitDash(SubSeq(s, p + 1, Len(s)))

\* const [min, max] = label.split('-').map(Number)
DestructureMinMax(label) ==
    LET parts == SplitDash(label)
        at(i) == IF i <= Len(parts) THEN parts[i] ELSE Undefined
    IN <<Number(at(1)), Number(at(2))>>

----------------------------------------------------------------------------
(* The label sets of the histogram.                                         *)

L100 == <<"1", "0", "0", "-", "2", "9", "9">>
L300 == <<"3", "0", "0", "-", "4", "9", "9">>
L500 == <<"5", "0", "0", "-", "7", "9", "9">>
L800 == <<"8", "0", "0", "+">>
T1 == <<"1", "-", "3">>
T5 == <<"5", "-", "7">>
T9 == <<"9", "-", "1", "5">>
T17 == <<"1", "7", "+">>
T32 == <<"3", "2", "+">>

delta_bins == <<L100, L300, L500, L800>>
t_bins == <<T1, T5, T9, T17>>

----------------------------------------------------------------------------
(* Heatmap.tsx: bounds parsed from the label text.                          *)

getDeltaBounds(label) ==
    IF label = L800 THEN <<Num(800), Infinity>>
    ELSE LET mm == DestructureMinMax(label)
         IN <<mm[1], JsPlus1(mm[2])>>

getTBounds(label) ==
    IF label = T32 THEN <<Num(32), Infinity>>
    ELSE LET mm == DestructureMinMax(label)
         IN <<mm[1], JsPlus1(mm[2])>>

\* the delta half and the t half of the filter predicate of getErrorsForCell
HeatDeltaMatch(deltaLabel, e) ==
    LET b == getDeltaBounds(deltaLabel)
    IN JsGe(e.delta_cp, b[1]) /\ JsLt(e.delta_cp, b[2])

HeatTMatch(tLabel, e) ==
    LET b == getTBounds(tLabel)
    IN JsGe(e.t_plies, b[1]) /\ JsLt(e.t_plies, b[2])

\* getErrorsForCell(deltaIdx, tIdx, [e]) is non-empty
HeatCellMatch(deltaIdx, tIdx, e) ==
    HeatDeltaMatch(delta_bins[deltaIdx], e) /\ HeatTMatch(t_bins[tIdx], e)

----------------------------------------------------------------------------
(* DifferenceHeatmap.tsx: literal case tables.                              *)

inTBin(tLabel, t) ==
    IF tLabel = T1 THEN t >= 1 /\ t <= 3
    ELSE IF tLabel = T5 THEN t >= 4 /\ t <= 7
    ELSE IF tLabel = T9 THEN t >= 8 /\ t <= 15
    ELSE IF tLabel = T17 THEN t >= 16
    ELSE FALSE

inDeltaBin(deltaLabel, delta, isMate) ==
    IF deltaLabel = L800 THEN isMate \/ delta >= 800
    ELSE IF isMate THEN FALSE
    ELSE IF deltaLabel = L100 THEN delta >= 100 /\ delta <= 299
    ELSE IF deltaLabel = L300 THEN delta >= 300 /\ delta <= 499
    ELSE IF deltaLabel = L500 THEN delta >= 500 /\ delta <= 799
    ELSE FALSE

DiffCellMatch(deltaIdx, tIdx, e) ==
    LET isMate == e.opportunity_kind = "mate"
    IN inDeltaBin(delta_bins[deltaIdx], e.delta_cp, isMate)
       /\ inTBin(t_bins[tIdx], e.t_plies)

----------------------------------------------------------------------------
(* The rules engine (chess.js) as the viewer uses it.  A position string    *)
(* (FEN) is modelled by the fields it spells out: the board, the side to    *)
(* move and the full-move number.  The board is a 2 x 2 corner of a chess   *)
(* board (a1, a2, b1, b2); a piece may step to any other square that does   *)
(* not hold a piece of its own colour, and a pawn that moves must promote.  *)

Files == <<"a", "b">>
Ranks == <<"1", "2">>
Empty == "."
WhitePieces == {"P", "N", "B", "R", "Q", "K"}
BlackPieces == {"p", "n", "b", "r", "q", "k"}

\* square.color and square.type of chess.board()
PieceColor(p) == IF p \in WhitePieces THEN "w" ELSE "b"
PieceType(p) ==
    CASE p \in {"P", "p"} -> "p"
      [] p \in {"N", "n"} -> "n"
      [] p \in {"B", "b"} -> "b"
      [] p \in {"R", "r"} -> "r"
      [] p \in {"Q", "q"} -> "q"
      [] OTHER -> "k"

MakePiece(color, type) ==
    IF color = "w"
    THEN CASE type = "q" -> "Q" [] type = "r" -> "R" [] type = "b" -> "B" [] OTHER -> "N"
    ELSE type

\* index of an algebraic square in the board, 0 when it names no square
SquareIndex(sq) ==
    IF Len(sq) = 2 /\ (\E f \in 1..2 : Files[f] = sq[1]) /\ (\E r \in 1..2 : Ranks[r] = sq[2])
    THEN 2 * ((CHOOSE f \in 1..2 : Files[f] = sq[1]) - 1)
         + (CHOOSE r \in 1..2 : Ranks[r] = sq[2])
    ELSE 0

\* the result of a move that chess.js rejects (it throws)
Illegal == [board |-> <<>>, turn |-> "x", fullmove |-> 0]

\* chess.move({from, to, promotion}) followed by chess.fen()
ChessMove(fen, from, to, promotion) ==
    LET fi == SquareIndex(from)
        ti == SquareIndex(to)
    IN IF fi = 0 \/ ti = 0 \/ fi = ti THEN Illegal
       ELSE LET piece == fen.board[fi]
                target == fen.board[ti]
            IN IF piece = Empty \/ PieceColor(piece) # fen.turn THEN Illegal
               ELSE IF target # Empty /\ PieceColor(target) = fen.turn THEN Illegal
               ELSE IF PieceType(piece) = "p" /\ promotion \notin {"q", "r", "b", "n"}
                    THEN Illegal
               ELSE LET placed == IF PieceType(piece) = "p"
                                  THEN MakePiece(fen.turn, promotion)
                                  ELSE piece
                    IN [board |-> [i \in 1..4 |->
                                     IF i = fi THEN Empty
                                     ELSE IF i = ti THEN placed
                                     ELSE fen.board[i]],
                        turn |-> IF fen.turn = "w" THEN "b" ELSE "w",
                        fullmove |-> IF fen.turn = "b" THEN fen.fullmove + 1
                                     ELSE fen.fullmove]

\* str.slice(a, b) for 0 <= a <= b
Slice(str, a, b) ==
    SubSeq(str, a + 1, IF b < Len(str) THEN b ELSE Len(str))

\* uci.length > 4 ? uci[4] : undefined
PromotionOf(uci) == IF Len(uci) > 4 THEN uci[5] ELSE "undefined"

\* the three lines that cut a UCI string up and hand it to chess.move
ApplyUci(fen, uci) ==
    ChessMove(fen, Slice(uci, 0, 2), Slice(uci, 2, 4), PromotionOf(uci))

----------------------------------------------------------------------------
(* ChessBoardViewer.  The useState cells of one render are read as the      *)
(* record s; `error` is the prop.  Evaluations are kept in centipawns, as   *)
(* exact fractions num/den: the division by 100 common to every branch of   *)
(* the source is left out.                                                  *)

Frac(n, d) == [num |-> n, den |-> d]

\* error.eval_before || 0, error.t_plies || 1
EvalBeforeOr0(error) == error.eval_before
TPliesOr1(error) == IF error.t_plies = 0 THEN 1 ELSE error.t_plies

BlackArrow == "rgba(0, 0, 0, 0.5)"
BlueArrow == "rgba(135, 206, 250, 0.7)"

\* updateArrows: the list it hands to setCustomArrows.  moveIndex is the
\* value captured by the render whose closure makes the call.
updateArrows(error, closureMoveIndex) ==
    LET mistake == <<Slice(error.move_uci, 0, 2), Slice(error.move_uci, 2, 4), BlackArrow>>
        reply == <<Slice(error.best_move_uci, 0, 2), Slice(error.best_move_uci, 2, 4),
                   BlueArrow>>
    IN IF closureMoveIndex = -1 /\ error.best_move_uci # <<>>
       THEN <<mistake, reply>>
       ELSE <<mistake>>

PieceValue(type) ==
    CASE type = "p" -> 1
      [] type = "n" -> 3
      [] type = "b" -> 3
      [] type = "r" -> 5
      [] type = "q" -> 9
      [] OTHER -> 0

RECURSIVE SumMaterial(_, _, _)
SumMaterial(board, color, i) ==
    IF i = 0 THEN 0
    ELSE SumMaterial(board, color, i - 1)
         + (IF board[i] # Empty /\ PieceColor(board[i]) = color
            THEN PieceValue(PieceType(board[i]))
            ELSE 0)

getAbsoluteMaterialDiff(error, fen) ==
    LET whiteMaterial == SumMaterial(fen.board, "w", Len(fen.board))
        blackMaterial == SumMaterial(fen.board, "b", Len(fen.board))
        playerIsWhite == error.fen_after.turn = "w"
    IN IF playerIsWhite THEN whiteMaterial - blackMaterial
       ELSE blackMaterial - whiteMaterial

calculateMaterialChange(error, fen, baseline) ==
    getAbsoluteMaterialDiff(error, fen) - baseline

\* getEvalForPosition with the fallback's progress taken as index / t_plies
getEvalForPositionLate(error, index) ==
    IF index = -1 THEN Frac(EvalBeforeOr0(error), 1)
    ELSE IF Len(error.pv_evals) > 0 /\ index < Len(error.pv_evals)
    THEN Frac(error.pv_evals[index + 1], 1)
    ELSE Frac(EvalBeforeOr0(error) * TPliesOr1(error) + error.delta_cp * index,
              TPliesOr1(error))

getEvalForPosition(error, index) ==
    IF index = -1 THEN Frac(EvalBeforeOr0(error), 1)
    ELSE IF Len(error.pv_evals) > 0 /\ index < Len(error.pv_evals)
    THEN Frac(error.pv_evals[index + 1], 1)
    ELSE Frac(EvalBeforeOr0(error) * TPliesOr1(error) + error.delta_cp * (index + 1),
              TPliesOr1(error))

\* the move handleNext needs at cursor k: NoMove when the code finds no move
\* to apply, else the UCI string
NoMove == <<"none">>
NextMoveOf(error, k) ==
    IF k + 1 = 0
    THEN (IF error.best_move_uci # <<>> THEN error.best_move_uci ELSE NoMove)
    ELSE (IF k + 1 < Len(error.pv_moves) THEN error.pv_moves[k + 2] ELSE NoMove)

\* chess.move throws inside handleNext's try block
NextThrows(s, error) ==
    /\ s.moveIndex < error.t_plies
    /\ NextMoveOf(error, s.moveIndex) # NoMove
    /\ ApplyUci(s.position, NextMoveOf(error, s.moveIndex)) = Illegal

\* handleNext moving the cursor before the move is known to apply
handleNextBadOrder(s, error) ==
    IF s.moveIndex >= error.t_plies THEN s
    ELSE IF NextMoveOf(error, s.moveIndex) = NoMove THEN s
    ELSE LET fen == ApplyUci(s.position, NextMoveOf(error, s.moveIndex))
             newIndex == s.moveIndex + 1
         IN IF fen = Illegal THEN [s EXCEPT !.moveIndex = newIndex]
            ELSE [position |-> fen,
                  moveIndex |-> newIndex,
                  customArrows |-> IF newIndex = 0 THEN <<>> ELSE s.customArrows,
                  currentEval |-> getEvalForPosition(error, newIndex),
                  materialDiff |-> calculateMaterialChange(error, fen, s.baselineMaterial),
                  baselineMaterial |-> s.baselineMaterial]

\* handleNext with the terminal guard off by one
handleNextPastEnd(s, error) ==
    IF s.moveIndex > error.t_plies THEN s
    ELSE IF NextMoveOf(error, s.moveIndex) = NoMove THEN s
    ELSE LET fen == ApplyUci(s.position, NextMoveOf(error, s.moveIndex))
             newIndex == s.moveIndex + 1
         IN IF fen = Illegal THEN s
            ELSE [position |-> fen,
                  moveIndex |-> newIndex,
                  customArrows |-> IF newIndex = 0 THEN <<>> ELSE s.customArrows,
                  currentEval |-> getEvalForPosition(error, newIndex),
                  materialDiff |-> calculateMaterialChange(error, fen, s.baselineMaterial),
                  baselineMaterial |-> s.baselineMaterial]

\* handleNext stepping the cursor although the move it needs is missing
handleNextSkipsMissing(s, error) ==
    IF s.moveIndex >= error.t_plies THEN s
    ELSE IF NextMoveOf(error, s.moveIndex) = NoMove
    THEN [s EXCEPT !.moveIndex = s.moveIndex + 1,
                   !.currentEval = getEvalForPosition(error, s.moveIndex + 1)]
    ELSE LET fen == ApplyUci(s.position, NextMoveOf(error, s.moveIndex))
             newIndex == s.moveIndex + 1
         IN IF fen = Illegal THEN s
            ELSE [position |-> fen,
                  moveIndex |-> newIndex,
                  customArrows |-> IF newIndex = 0 THEN <<>> ELSE s.customArrows,
                  currentEval |-> getEvalForPosition(error, newIndex),
                  materialDiff |-> calculateMaterialChange(error, fen, s.baselineMaterial),
                  baselineMaterial |-> s.baselineMaterial]

handleNext(s, error) ==
    IF s.moveIndex >= error.t_plies THEN s
    ELSE LET newIndex == s.moveIndex + 1
         IN IF newIndex = 0
            THEN \* apply the best reply
                 IF error.best_move_uci # <<>>
                 THEN LET fen == ApplyUci(s.position, error.best_move_uci)
                      IN IF fen = Illegal THEN s
                         ELSE [position |-> fen,
                               moveIndex |-> 0,
                               customArrows |-> <<>>,
                               currentEval |-> getEvalForPosition(error, 0),
                               materialDiff |->
                                   calculateMaterialChange(error, fen, s.baselineMaterial),
                               baselineMaterial |-> s.baselineMaterial]
                 ELSE s
            ELSE \* apply pv_moves[newIndex]
                 IF newIndex < Len(error.pv_moves)
                 THEN LET fen == ApplyUci(s.position, error.pv_moves[newIndex + 1])
                      IN IF fen = Illegal THEN s
                         ELSE [position |-> fen,
                               moveIndex |-> newIndex,
                               customArrows |-> s.customArrows,
                               currentEval |-> getEvalForPosition(error, newIndex),
                               materialDiff |->
                                   calculateMaterialChange(error, fen, s.baselineMaterial),
                               baselineMaterial |-> s.baselineMaterial]
                 ELSE s

\* the loop of handlePrevious: for (i = from; i <= newIndex; i++) on `fen`
RECURSIVE RebuildLoop(_, _, _, _)
RebuildLoop(error, fen, i, newIndex) ==
    IF fen = Illegal \/ i > newIndex THEN fen
    ELSE IF i < Len(error.pv_moves)
    THEN RebuildLoop(error, ApplyUci(fen, error.pv_moves[i + 1]), i + 1, newIndex)
    ELSE RebuildLoop(error, fen, i + 1, newIndex)

\* Rebuild with the loop stopping one move short
RebuildShort(error, newIndex) ==
    LET afterBest == IF error.best_move_uci # <<>>
                     THEN ApplyUci(error.fen_after, error.best_move_uci)
                     ELSE error.fen_after
    IN RebuildLoop(error, afterBest, 1, newIndex - 1)

\* the try block of handlePrevious up to chess.fen(): Illegal when a move throws
Rebuild(error, newIndex) ==
    LET afterBest == IF error.best_move_uci # <<>>
                     THEN ApplyUci(error.fen_after, error.best_move_uci)
                     ELSE error.fen_after
    IN RebuildLoop(error, afterBest, 1, newIndex)

PreviousThrows(s, error) ==
    s.moveIndex >= 1 /\ Rebuild(error, s.moveIndex - 1) = Illegal

\* handlePrevious replaying up to the old cursor instead of the new one
handlePreviousStale(s, error) ==
    IF s.moveIndex = -1 THEN s
    ELSE IF s.moveIndex = 0
    THEN [position |-> error.fen_after,
          moveIndex |-> -1,
          customArrows |-> updateArrows(error, s.moveIndex),
          currentEval |-> getEvalForPosition(error, -1),
          materialDiff |-> 0,
          baselineMaterial |-> s.baselineMaterial]
    ELSE LET newIndex == s.moveIndex - 1
             fen == Rebuild(error, s.moveIndex)
         IN IF fen = Illegal THEN s
            ELSE [position |-> fen,
                  moveIndex |-> newIndex,
                  customArrows |-> s.customArrows,
                  currentEval |-> getEvalForPosition(error, newIndex),
                  materialDiff |-> calculateMaterialChange(error, fen, s.baselineMaterial),
                  baselineMaterial |-> s.baselineMaterial]

\* handlePrevious whose k = 0 branch leaves the material delta as it was
handlePreviousKeepsMaterial(s, error) ==
    IF s.moveIndex = -1 THEN s
    ELSE IF s.moveIndex = 0
    THEN [position |-> error.fen_after,
          moveIndex |-> -1,
          customArrows |-> updateArrows(error, s.moveIndex),
          currentEval |-> getEvalForPosition(error, -1),
          materialDiff |-> s.materialDiff,
          baselineMaterial |-> s.baselineMaterial]
    ELSE LET newIndex == s.moveIndex - 1
             fen == Rebuild(error, newIndex)
         IN IF fen = Illegal THEN s
            ELSE [position |-> fen,
                  moveIndex |-> newIndex,
                  customArrows |-> s.customArrows,
                  currentEval |-> getEvalForPosition(error, newIndex),
                  materialDiff |-> calculateMaterialChange(error, fen, s.baselineMaterial),
                  baselineMaterial |-> s.baselineMaterial]

handlePrevious(s, error) ==
    IF s.moveIndex = -1 THEN s
    ELSE IF s.moveIndex = 0
    THEN [position |-> error.fen_after,
          moveIndex |-> -1,
          customArrows |-> updateArrows(error, s.moveIndex),
          currentEval |-> getEvalForPosition(error, -1),
          materialDiff |-> 0,
          baselineMaterial |-> s.baselineMaterial]
    ELSE LET newIndex == s.moveIndex - 1
             fen == Rebuild(error, newIndex)
         IN IF fen = Illegal THEN s
            ELSE [position |-> fen,
                  moveIndex |-> newIndex,
                  customArrows |-> s.customArrows,
                  currentEval |-> getEvalForPosition(error, newIndex),
                  materialDiff |-> calculateMaterialChange(error, fen, s.baselineMaterial),
                  baselineMaterial |-> s.baselineMaterial]

\* the useState initialisers of a viewer mounted for `error`
InitialViewerState(error) ==
    [position |-> error.fen_after,
     moveIndex |-> -1,
     customArrows |-> <<>>,
     currentEval |-> Frac(0, 1),
     materialDiff |-> 0,
     baselineMaterial |-> 0]

\* the reset effect without its setMoveIndex(-1)
resetEffectKeepsCursor(s, error) ==
    [position |-> error.fen_after,
     moveIndex |-> s.moveIndex,
     customArrows |-> updateArrows(error, s.moveIndex),
     currentEval |-> Frac(EvalBeforeOr0(error), 1),
     materialDiff |-> 0,
     baselineMaterial |-> getAbsoluteMaterialDiff(error, error.fen_after)]

\* the reset effect without its setBaselineMaterial
resetEffectKeepsBaseline(s, error) ==
    [position |-> error.fen_after,
     moveIndex |-> -1,
     customArrows |-> updateArrows(error, s.moveIndex),
     currentEval |-> Frac(EvalBeforeOr0(error), 1),
     materialDiff |-> 0,
     baselineMaterial |-> s.baselineMaterial]

\* useEffect(..., [error]): runs in the render that saw the new prop, whose
\* closure still holds the state s of before the reset
resetEffect(s, error) ==
    [position |-> error.fen_after,
     moveIndex |-> -1,
     customArrows |-> updateArrows(error, s.moveIndex),
     currentEval |-> Frac(EvalBeforeOr0(error), 1),
     materialDiff |-> 0,
     baselineMaterial |-> getAbsoluteMaterialDiff(error, error.fen_after)]

----------------------------------------------------------------------------
(* The events a session can hold.                                           *)

MaxPlies == 3      \* largest t_plies of an event
MaxEvals == 2      \* largest length of pv_evals
MaxPv == MaxPlies + 1   \* largest length of pv_moves

U(a, b, c, d) == <<a, b, c, d>>

\* a line of play that is legal from both starting positions: the pawn takes
\* on a2 and promotes, the queen takes back, then king and queen shuttle
Line(i) ==
    IF i = 1 THEN <<"a", "1", "a", "2", "q">>
    ELSE IF i = 2 THEN U("b", "2", "a", "2")
    ELSE CASE (i - 3) % 4 = 0 -> U("b", "1", "b", "2")
           [] (i - 3) % 4 = 1 -> U("a", "2", "a", "1")
           [] (i - 3) % 4 = 2 -> U("b", "2", "b", "1")
           [] OTHER -> U("a", "1", "a", "2")

Malformed == <<"a", "1">>            \* a move string cut short
NoSuchMove == U("a", "1", "a", "1")  \* well-formed, never legal

FenW == [board |-> <<"P", "r", "K", "q">>, turn |-> "w", fullmove |-> 20]
FenB == [board |-> <<"p", "R", "k", "Q">>, turn |-> "b", fullmove |-> 20]
\* the same corner with a rook for the queen: another material balance
FenR == [board |-> <<"P", "r", "K", "r">>, turn |-> "w", fullmove |-> 31]

\* pv_moves of length len whose entry `bad` (if any) is replaced by badMove
PvMoves(len, bad, badMove) ==
    [i \in 1..len |-> IF i = bad THEN badMove ELSE Line(i)]

MakeEvent(fen, t, len, bad, badMove, ne, hasBest) ==
    [fen_after |-> fen,
     t_plies |-> t,
     delta_cp |-> 250,
     eval_before |-> IF fen.turn = "w" THEN 40 ELSE -40,
     move_uci |-> U("b", "1", "b", "2"),
     best_move_uci |-> IF ~hasBest THEN <<>>
                       ELSE IF bad = 1 THEN badMove
                       ELSE Line(1),
     pv_moves |-> PvMoves(len, bad, badMove),
     pv_evals |-> [i \in 1..ne |-> (IF fen.turn = "w" THEN 40 ELSE -40) + 60 * i]]

Catalog ==
    { MakeEvent(fen, t, len, bad, badMove, ne, TRUE) :
        fen \in {FenW, FenB}, t \in 1..MaxPlies, len \in 0..MaxPv,
        bad \in 0..MaxPv, badMove \in {Malformed, NoSuchMove}, ne \in 0..MaxEvals }
    \cup
    { MakeEvent(fen, t, len, 0, Malformed, ne, FALSE) :
        fen \in {FenW, FenB}, t \in 1..MaxPlies, len \in 0..MaxPv, ne \in 0..MaxEvals }

\* the events a session offers next to the first one
SwitchCatalog ==
    { MakeEvent(FenB, 2, 3, 0, Malformed, 1, TRUE),
      MakeEvent(FenW, 1, 2, 0, Malformed, 0, TRUE),
      MakeEvent(FenR, 2, 3, 0, Malformed, 1, TRUE) }

NoError ==
    [fen_after |-> Illegal, t_plies |-> 0, delta_cp |-> 0, eval_before |-> 0,
     move_uci |-> <<>>, best_move_uci |-> <<>>, pv_moves |-> <<>>, pv_evals |-> <<>>]

\* what the viewer variables hold while no viewer is mounted
Unmounted ==
    [position |-> Illegal, moveIndex |-> -1, customArrows |-> <<>>,
     currentEval |-> Frac(0, 1), materialDiff |-> 0, baselineMaterial |-> 0]

\* the state cells of the current render
View ==
    [position |-> position, moveIndex |-> moveIndex, customArrows |-> customArrows,
     currentEval |-> currentEval, materialDiff |-> materialDiff,
     baselineMaterial |-> baselineMaterial]

SetView(s) ==
    /\ position' = s.position
    /\ moveIndex' = s.moveIndex
    /\ customArrows' = s.customArrows
    /\ currentEval' = s.currentEval
    /\ materialDiff' = s.materialDiff
    /\ baselineMaterial' = s.baselineMaterial

NoOp == [op |-> "none", pre |-> Unmounted, error |-> NoError, threw |-> FALSE]

----------------------------------------------------------------------------
(* Bucket classification: an event is drawn and both cell filters run.      *)

MaxT == 18         \* largest t_plies handed to the classifiers

DeltaValues == {0, 50, 99, 100, 250, 299, 300, 499, 500, 799, 800, 950}

\* cp events carry delta_cp >= 100; a mate event may carry any delta_cp
BinEvents ==
    { e \in [delta_cp : DeltaValues, t_plies : 1..MaxT, opportunity_kind : {"cp", "mate"}] :
        e.opportunity_kind = "cp" => e.delta_cp >= 100 }

Cells == (1..Len(delta_bins)) \X (1..Len(t_bins))

BinIdle ==
    /\ binEvent = [delta_cp |-> 250, t_plies |-> 6, opportunity_kind |-> "cp"]
    /\ binPhase = "input"
    /\ heatCells = {}
    /\ diffCells = {}

ViewerIdle ==
    /\ selectedEvents = <<>>
    /\ selectedError = NoError
    /\ position = Unmounted.position
    /\ moveIndex = Unmounted.moveIndex
    /\ customArrows = Unmounted.customArrows
    /\ currentEval = Unmounted.currentEval
    /\ materialDiff = Unmounted.materialDiff
    /\ baselineMaterial = Unmounted.baselineMaterial
    /\ lastOp = NoOp
    /\ prevOp = NoOp
    /\ advCalls = -1

\* no analysis on screen
GridIdle ==
    /\ errors = <<>>
    /\ fieldErrors = <<>>
    /\ viewMode = "count"
    /\ heatGrid = <<>>
    /\ diffGrid = <<>>
    /\ cellClick = <<0, 0>>
    /\ gridLast = [op |-> "none", called |-> FALSE, cell |-> <<0, 0>>]

\* App before its first fetch is sent
DefaultMinElo == 0
DefaultMaxElo == 3000
NoResponse == [status |-> "none", body |-> "empty", error |-> <<>>]
NoRequest == [seq |-> 0, outcome |-> "none"]
NoAppOp == [op |-> "none", seq |-> 0, threw |-> FALSE, response |-> NoResponse]
AppIdle ==
    /\ players = <<>>
    /\ selectedPlayer = ""
    /\ loading = FALSE
    /\ appError = <<>>
    /\ analysisResult = <<>>
    /\ fieldAverageResult = <<>>
    /\ minElo = DefaultMinElo
    /\ maxElo = DefaultMaxElo
    /\ showEventDetails = FALSE
    /\ inFlight = {}
    /\ started = 0
    /\ appLast = NoAppOp
    /\ newest = NoRequest

InitBins ==
    /\ AppIdle
    /\ binEvent \in BinEvents
    /\ binPhase = "input"
    /\ heatCells = {}
    /\ diffCells = {}
    /\ ViewerIdle
    /\ GridIdle

\* Heatmap: getErrorsForCell over every cell of the grid
ClassifyHeatmap ==
    /\ binPhase = "input"
    /\ heatCells' = { c \in Cells : HeatCellMatch(c[1], c[2], binEvent) }
    /\ binPhase' = "heat"
    /\ UNCHANGED <<binEvent, diffCells, viewerVars, histVars, gridVars, appVars>>

\* DifferenceHeatmap: getErrorsForCell over every cell of the grid
ClassifyDifference ==
    /\ binPhase = "heat"
    /\ diffCells' = { c \in Cells : DiffCellMatch(c[1], c[2], binEvent) }
    /\ binPhase' = "both"
    /\ UNCHANGED <<binEvent, heatCells, viewerVars, histVars, gridVars, appVars>>

\* the next event of the collection is handed to the filters
NextBinEvent ==
    /\ binPhase = "both"
    /\ binEvent' \in BinEvents
    /\ binPhase' = "input"
    /\ heatCells' = {}
    /\ diffCells' = {}
    /\ UNCHANGED <<viewerVars, histVars, gridVars, appVars>>

NextBins == ClassifyHeatmap \/ ClassifyDifference \/ NextBinEvent

SpecBins == InitBins /\ [][NextBins]_vars

----------------------------------------------------------------------------
(* Replay: a cell holding two events is open; rows are clicked, the cell is *)
(* clicked again (which unmounts the viewer), and the viewer is stepped.    *)

InitReplay ==
    /\ AppIdle
    /\ BinIdle
    /\ GridIdle
    /\ \E e1 \in Catalog, e2 \in SwitchCatalog :
          /\ e1 # e2
          /\ selectedEvents = <<e1, e2>>
    /\ selectedError = NoError
    /\ position = Unmounted.position
    /\ moveIndex = Unmounted.moveIndex
    /\ customArrows = Unmounted.customArrows
    /\ currentEval = Unmounted.currentEval
    /\ materialDiff = Unmounted.materialDiff
    /\ baselineMaterial = Unmounted.baselineMaterial
    /\ lastOp = NoOp
    /\ prevOp = NoOp
    /\ advCalls = -1

\* App.handleMoveClick(event), then the render of ChessBoardViewer: a mount
\* with the reset effect, or the reset effect of the mounted viewer
HandleMoveClick(i) ==
    LET error == selectedEvents[i]
        s == IF selectedError = NoError THEN InitialViewerState(error) ELSE View
    IN /\ error # selectedError
       /\ selectedError' = error
       /\ SetView(resetEffect(s, error))
       /\ lastOp' = [op |-> "select", pre |-> s, error |-> error, threw |-> FALSE]
       /\ prevOp' = NoOp
       /\ advCalls' = 0
       /\ UNCHANGED <<selectedEvents, binVars, gridVars, appVars>>

\* App.handleCellClick on the open cell: setSelectedError(null) unmounts the viewer
HandleCellClick ==
    /\ selectedError # NoError
    /\ selectedError' = NoError
    /\ SetView(Unmounted)
    /\ lastOp' = NoOp
    /\ prevOp' = NoOp
    /\ advCalls' = -1
    /\ UNCHANGED <<selectedEvents, binVars, gridVars, appVars>>

HandleNext ==
    /\ selectedError # NoError
    /\ SetView(handleNext(View, selectedError))
    /\ lastOp' = [op |-> "next", pre |-> View, error |-> selectedError,
                  threw |-> NextThrows(View, selectedError)]
    /\ prevOp' = lastOp
    /\ advCalls' = IF advCalls = -1 THEN -1
                   ELSE IF advCalls > selectedError.t_plies + 1 THEN advCalls
                   ELSE advCalls + 1
    /\ UNCHANGED <<selectedEvents, selectedError, binVars, gridVars, appVars>>

HandlePrevious ==
    /\ selectedError # NoError
    /\ SetView(handlePrevious(View, selectedError))
    /\ lastOp' = [op |-> "previous", pre |-> View, error |-> selectedError,
                  threw |-> PreviousThrows(View, selectedError)]
    /\ prevOp' = lastOp
    /\ advCalls' = -1
    /\ UNCHANGED <<selectedEvents, selectedError, binVars, gridVars, appVars>>

NextReplay ==
    \/ \E i \in 1..Len(selectedEvents) : HandleMoveClick(i)
    \/ HandleCellClick
    \/ HandleNext
    \/ HandlePrevious

SpecReplay == InitReplay /\ [][NextReplay]_vars

----------------------------------------------------------------------------
(* Heatmap.tsx: per-cell values, texts and colours.  A text is the sequence *)
(* of its characters, a colour 'rgb(r, g, b)' the triple of its components, *)
(* and every quotient is kept exact until Math.round is applied (the source *)
(* computes in floating point, which can move an interpolated colour        *)
(* component by one where the exact value ends in .5; the stops themselves, *)
(* intensities 0 and 1, are exact in both).                                 *)

\* Math.round(n / d) for d > 0: the nearest integer, halves rounded up
Round(n, d) == (2 * n + d) \div (2 * d)

\* n.toString() for an integer n
RECURSIVE DigitsOf(_)
DigitsOf(n) == IF n < 10 THEN <<Digits[n + 1]>> ELSE DigitsOf(n \div 10) \o <<Digits[(n % 10) + 1]>>
toString(n) == IF n < 0 THEN <<"-">> \o DigitsOf(0 - n) ELSE DigitsOf(n)

\* errors.filter(e => e.converted_actual === 0)
missedErrors(errorList) == SelectSeq(errorList, LAMBDA e : e.converted_actual = 0)

\* Heatmap's getErrorsForCell
\* the bounds getErrorsForCell parses for each row and column of the grid
deltaBoundsOf == [i \in 1..Len(delta_bins) |-> getDeltaBounds(delta_bins[i])]
tBoundsOf == [i \in 1..Len(t_bins) |-> getTBounds(t_bins[i])]

getErrorsForCell(deltaIdx, tIdx, errorList) ==
    LET deltaBounds == deltaBoundsOf[deltaIdx]
        tBounds == tBoundsOf[tIdx]
    IN SelectSeq(errorList,
                 LAMBDA e : /\ JsGe(e.delta_cp, deltaBounds[1]) /\ JsLt(e.delta_cp, deltaBounds[2])
                            /\ JsGe(e.t_plies, tBounds[1]) /\ JsLt(e.t_plies, tBounds[2]))

\* getCellData whose count branch counts every event of the cell
getCellDataCountsAll(deltaIdx, tIdx, errorList, mode) ==
    LET missedInCell == getErrorsForCell(deltaIdx, tIdx, missedErrors(errorList))
        totalInCell == getErrorsForCell(deltaIdx, tIdx, errorList)
    IN IF mode = "count"
       THEN [display |-> toString(Len(totalInCell)), count |-> Len(totalInCell)]
       ELSE IF Len(totalInCell) = 0
       THEN [display |-> <<"0", "%">>, count |-> 0]
       ELSE [display |-> toString(Round(Len(missedInCell) * 100, Len(totalInCell))) \o <<"%">>,
             count |-> Round(Len(missedInCell) * 100, Len(totalInCell))]

getCellData(deltaIdx, tIdx, errorList, mode) ==
    LET missedInCell == getErrorsForCell(deltaIdx, tIdx, missedErrors(errorList))
        totalInCell == getErrorsForCell(deltaIdx, tIdx, errorList)
    IN IF mode = "count"
       THEN [display |-> toString(Len(missedInCell)), count |-> Len(missedInCell)]
       ELSE IF Len(totalInCell) = 0
       THEN [display |-> <<"0", "%">>, count |-> 0]
       ELSE [display |-> toString(Round(Len(missedInCell) * 100, Len(totalInCell))) \o <<"%">>,
             count |-> Round(Len(missedInCell) * 100, Len(totalInCell))]

\* Math.max(...values) over a non-empty set of integers
SetMax(S) == CHOOSE m \in S : \A v \in S : v <= m

\* the scale maximum taken from the missed counts whatever the view shows
maxCountOfCounts(errorList, mode) ==
    SetMax({ getCellData(c[1], c[2], errorList, "count").count :
                c \in (1..Len(delta_bins)) \X (1..Len(t_bins)) } \cup {1})

\* Math.max(...allCellData, 1)
maxCount(errorList, mode) ==
    SetMax({ getCellData(c[1], c[2], errorList, mode).count :
                c \in (1..Len(delta_bins)) \X (1..Len(t_bins)) } \cup {1})

colorStops ==
    << <<51, 65, 85>>, <<71, 85, 105>>, <<99, 102, 241>>,
       <<139, 92, 246>>, <<236, 72, 153>>, <<239, 68, 68>> >>

\* stopPositions, in hundredths
stopPositions == <<0, 15, 30, 50, 70, 100>>

\* interpolateColor with factor = fn / fd
interpolateColor(color1, color2, fn, fd) ==
    [i \in 1..3 |-> Round(color1[i] * fd + (color2[i] - color1[i]) * fn, fd)]

\* getColor(count) of a render whose scale maximum is mx: intensity is
\* count / mx, compared with the stops as 100 * count against position * mx
getColor(count, mx) ==
    IF mx = 0 THEN <<51, 65, 85>>
    ELSE LET Below == { i \in 1..(Len(stopPositions) - 1) :
                            100 * count <= stopPositions[i + 1] * mx }
         IN IF Below = {} THEN colorStops[Len(colorStops)]
            ELSE LET i == CHOOSE j \in Below : \A k \in Below : j <= k
                     rangeStart == stopPositions[i]
                     rangeSize == stopPositions[i + 1] - stopPositions[i]
                 IN interpolateColor(colorStops[i], colorStops[i + 1],
                                     100 * count - rangeStart * mx, rangeSize * mx)

\* one <td> of the table: its value, the intensity getColor derives from it
\* (count / maxCount), its background and its text
HeatCell(deltaIdx, tIdx, errorList, mode, mx) ==
    LET cellData == getCellData(deltaIdx, tIdx, errorList, mode)
    IN [count |-> cellData.count,
        intensity |-> Frac(cellData.count, mx),
        color |-> getColor(cellData.count, mx),
        text |-> IF cellData.count > 0 THEN cellData.display ELSE <<>>]

\* one render: maxCount is computed once, then every cell is drawn
RenderHeatmap(errorList, mode) ==
    LET mx == maxCount(errorList, mode)
    IN [c \in (1..Len(delta_bins)) \X (1..Len(t_bins)) |->
          HeatCell(c[1], c[2], errorList, mode, mx)]

\* what handleCellClick does: whether it calls onCellClick, and with which events
NoCall == [called |-> FALSE, events |-> <<>>]

\* handleCellClick handing over every event of the cell
handleCellClickAll(deltaIdx, tIdx, errorList) ==
    LET cellErrors == getErrorsForCell(deltaIdx, tIdx, errorList)
    IN IF Len(cellErrors) > 0 THEN [called |-> TRUE, events |-> cellErrors] ELSE NoCall

\* handleCellClick making the call for every cell
handleCellClickAlways(deltaIdx, tIdx, errorList) ==
    [called |-> TRUE, events |-> getErrorsForCell(deltaIdx, tIdx, missedErrors(errorList))]

handleCellClick(deltaIdx, tIdx, errorList) ==
    LET cellErrors == getErrorsForCell(deltaIdx, tIdx, missedErrors(errorList))
    IN IF Len(cellErrors) > 0 THEN [called |-> TRUE, events |-> cellErrors] ELSE NoCall

----------------------------------------------------------------------------
(* DifferenceHeatmap.tsx: per-cell difference, colour and text.             *)

\* DifferenceHeatmap's getErrorsForCell
getDiffErrorsForCell(deltaIdx, tIdx, errorList) ==
    SelectSeq(errorList, LAMBDA e : DiffCellMatch(deltaIdx, tIdx, e))

\* getCellDifference returning playerPct - fieldPct
getCellDifferenceSwapped(deltaIdx, tIdx, playerList, fieldList) ==
    LET playerMissedInCell == getDiffErrorsForCell(deltaIdx, tIdx, missedErrors(playerList))
        playerTotalInCell == getDiffErrorsForCell(deltaIdx, tIdx, playerList)
        fieldMissedInCell == getDiffErrorsForCell(deltaIdx, tIdx, missedErrors(fieldList))
        fieldTotalInCell == getDiffErrorsForCell(deltaIdx, tIdx, fieldList)
        playerPct == IF Len(playerTotalInCell) > 0
                     THEN Frac(Len(playerMissedInCell) * 100, Len(playerTotalInCell))
                     ELSE Frac(0, 1)
        fieldPct == IF Len(fieldTotalInCell) > 0
                    THEN Frac(Len(fieldMissedInCell) * 100, Len(fieldTotalInCell))
                    ELSE Frac(0, 1)
    IN IF Len(playerTotalInCell) = 0 /\ Len(fieldTotalInCell) = 0
       THEN [diff |-> Frac(0, 1), hasData |-> FALSE]
       ELSE [diff |-> Frac(playerPct.num * fieldPct.den - fieldPct.num * playerPct.den,
                           fieldPct.den * playerPct.den),
             hasData |-> TRUE]

getCellDifference(deltaIdx, tIdx, playerList, fieldList) ==
    LET playerMissedInCell == getDiffErrorsForCell(deltaIdx, tIdx, missedErrors(playerList))
        playerTotalInCell == getDiffErrorsForCell(deltaIdx, tIdx, playerList)
        fieldMissedInCell == getDiffErrorsForCell(deltaIdx, tIdx, missedErrors(fieldList))
        fieldTotalInCell == getDiffErrorsForCell(deltaIdx, tIdx, fieldList)
        playerPct == IF Len(playerTotalInCell) > 0
                     THEN Frac(Len(playerMissedInCell) * 100, Len(playerTotalInCell))
                     ELSE Frac(0, 1)
        fieldPct == IF Len(fieldTotalInCell) > 0
                    THEN Frac(Len(fieldMissedInCell) * 100, Len(fieldTotalInCell))
                    ELSE Frac(0, 1)
    IN IF Len(playerTotalInCell) = 0 /\ Len(fieldTotalInCell) = 0
       THEN [diff |-> Frac(0, 1), hasData |-> FALSE]
       ELSE [diff |-> Frac(fieldPct.num * playerPct.den - playerPct.num * fieldPct.den,
                           fieldPct.den * playerPct.den),
             hasData |-> TRUE]

\* Math.max(-50, Math.min(50, diff))
clampedDiff(diff) ==
    IF diff.num > 50 * diff.den THEN Frac(50, 1)
    ELSE IF diff.num < (0 - 50) * diff.den THEN Frac(0 - 50, 1)
    ELSE diff

\* one component of a diverging scale: Math.round(from + (to - from) * intensity)
\* with intensity = Math.abs(clamped) / 50
ScaleComponent(from, to, clamped) ==
    LET abs == IF clamped.num < 0 THEN 0 - clamped.num ELSE clamped.num
    IN Round(from * 50 * clamped.den + (to - from) * abs, 50 * clamped.den)

\* DifferenceHeatmap's getColor painting a cell without data as a zero difference
getDiffColorNoFlag(diff, hasData) ==
    LET clamped == clampedDiff(diff)
    IN IF clamped.num < 0
       THEN <<ScaleComponent(51, 239, clamped), ScaleComponent(65, 68, clamped),
              ScaleComponent(85, 68, clamped)>>
       ELSE IF clamped.num > 0
       THEN <<ScaleComponent(51, 34, clamped), ScaleComponent(65, 197, clamped),
              ScaleComponent(85, 94, clamped)>>
       ELSE <<51, 65, 85>>

\* DifferenceHeatmap's getColor
getDiffColor(diff, hasData) ==
    IF ~hasData THEN <<30, 41, 59>>
    ELSE LET clamped == clampedDiff(diff)
         IN IF clamped.num < 0
            THEN <<ScaleComponent(51, 239, clamped), ScaleComponent(65, 68, clamped),
                   ScaleComponent(85, 68, clamped)>>
            ELSE IF clamped.num > 0
            THEN <<ScaleComponent(51, 34, clamped), ScaleComponent(65, 197, clamped),
                   ScaleComponent(85, 94, clamped)>>
            ELSE <<51, 65, 85>>

\* hasData ? `${diff > 0 ? '+' : ''}${Math.round(diff)}%` : ''
displayText(diff, hasData) ==
    IF ~hasData THEN <<>>
    ELSE (IF diff.num > 0 THEN <<"+">> ELSE <<>>)
         \o toString(Round(diff.num, diff.den)) \o <<"%">>

\* one <td> of the difference table
DiffCell(deltaIdx, tIdx, playerList, fieldList) ==
    LET d == getCellDifference(deltaIdx, tIdx, playerList, fieldList)
    IN [diff |-> d.diff,
        hasData |-> d.hasData,
        clamped |-> clampedDiff(d.diff),
        color |-> getDiffColor(d.diff, d.hasData),
        text |-> displayText(d.diff, d.hasData)]

RenderDifference(playerList, fieldList) ==
    [c \in (1..Len(delta_bins)) \X (1..Len(t_bins)) |->
        DiffCell(c[1], c[2], playerList, fieldList)]

----------------------------------------------------------------------------
(* The heatmap: the player's collection is on screen, the view is toggled   *)
(* and cells are clicked.                                                   *)

MaxErrors == 4     \* largest player collection
MaxField == 2      \* largest field collection

\* the events of two cells, missed and converted
GridKinds ==
    { [delta_cp |-> k[1], t_plies |-> k[2], opportunity_kind |-> "cp", converted_actual |-> ca] :
        k \in {<<250, 2>>, <<400, 6>>}, ca \in {0, 1} }

\* a collection lists its events in ply order
Collections ==
    UNION { { [i \in 1..n |->
                 [delta_cp |-> f[i].delta_cp, t_plies |-> f[i].t_plies,
                  opportunity_kind |-> f[i].opportunity_kind,
                  converted_actual |-> f[i].converted_actual, ply_index |-> i]] :
              f \in [1..n -> GridKinds] } : n \in 0..MaxErrors }

InitGrid ==
    /\ AppIdle
    /\ BinIdle
    /\ ViewerIdle
    /\ errors \in Collections
    /\ fieldErrors = <<>>
    /\ viewMode = "count"
    /\ heatGrid = RenderHeatmap(errors, viewMode)
    /\ diffGrid = <<>>
    /\ cellClick = <<0, 0>>
    /\ gridLast = [op |-> "none", called |-> FALSE, cell |-> <<0, 0>>]

\* a button of the view toggle: setViewMode(mode), then the render
SetViewMode(mode) ==
    /\ mode # viewMode
    /\ viewMode' = mode
    /\ heatGrid' = RenderHeatmap(errors, mode)
    /\ gridLast' = [op |-> "view", called |-> FALSE, cell |-> <<0, 0>>]
    /\ UNCHANGED <<errors, fieldErrors, diffGrid, cellClick, binVars, viewerVars, histVars,
                      appVars>>

\* a click on a cell of the player's heatmap: Heatmap.handleCellClick and,
\* when it makes the call, App.handleCellClick
HeatmapCellClick(deltaIdx, tIdx) ==
    LET call == handleCellClick(deltaIdx, tIdx, errors)
    IN /\ gridLast' = [op |-> "click", called |-> call.called, cell |-> <<deltaIdx, tIdx>>]
       /\ IF call.called
          THEN /\ cellClick' = <<deltaIdx, tIdx>>
               /\ selectedEvents' = call.events
               /\ showEventDetails' = (Len(call.events) > 0)
               /\ selectedError' = NoError
          ELSE UNCHANGED <<cellClick, selectedEvents, showEventDetails, selectedError>>
       /\ UNCHANGED <<errors, fieldErrors, viewMode, heatGrid, diffGrid, binVars,
                      position, moveIndex, customArrows, currentEval, materialDiff,
                      baselineMaterial, histVars, players, selectedPlayer, loading,
                      appError, analysisResult, fieldAverageResult, minElo, maxElo,
                      inFlight, started, appLast, newest>>

\* a click on a row of the details table: App.handleMoveClick(event)
RowClick(i) ==
    /\ showEventDetails
    /\ selectedError' = selectedEvents[i]
    /\ gridLast' = [op |-> "row", called |-> FALSE, cell |-> <<0, 0>>]
    /\ UNCHANGED <<errors, fieldErrors, viewMode, heatGrid, diffGrid, cellClick, binVars,
                   selectedEvents, position, moveIndex, customArrows, currentEval,
                   materialDiff, baselineMaterial, histVars, appVars>>

NextGrid ==
    \/ \E mode \in {"count", "percentage"} : SetViewMode(mode)
    \/ \E c \in (1..Len(delta_bins)) \X (1..Len(t_bins)) : HeatmapCellClick(c[1], c[2])

SpecGrid == InitGrid /\ [][NextGrid]_vars

\* Specification of the selection made through the grid: cell clicks on
\* small collections, then clicks on the rows of the details table.  The
\* replay of the selected event is followed in SpecReplay, not here.
MaxClickErrors == 3     \* largest collection clicked on

InitSelection ==
    /\ InitGrid
    /\ Len(errors) <= MaxClickErrors

NextSelection ==
    \/ \E c \in (1..Len(delta_bins)) \X (1..Len(t_bins)) : HeatmapCellClick(c[1], c[2])
    \/ \E i \in 1..Len(selectedEvents) : RowClick(i)

SpecSelection == InitSelection /\ [][NextSelection]_vars

----------------------------------------------------------------------------
(* The difference heatmap: the player's collection is on screen against an  *)
(* empty field; the field's collection is replaced and the table drawn      *)
(* again.                                                                   *)

\* a collection given by its numbers of events: per cell the missed ones,
\* then the converted ones
Tally(a0, a1, b0, b1) ==
    LET Kind(i) == IF i <= a0 THEN <<250, 2, 0>>
                   ELSE IF i <= a0 + a1 THEN <<250, 2, 1>>
                   ELSE IF i <= a0 + a1 + b0 THEN <<400, 6, 0>>
                   ELSE <<400, 6, 1>>
    IN [i \in 1..(a0 + a1 + b0 + b1) |->
          [delta_cp |-> Kind(i)[1], t_plies |-> Kind(i)[2], opportunity_kind |-> "cp",
           converted_actual |-> Kind(i)[3], ply_index |-> i]]

Tallies(max) ==
    { Tally(q[1], q[2], q[3], q[4]) :
        q \in { p \in (0..max) \X (0..max) \X (0..max) \X (0..max) :
                  p[1] + p[2] + p[3] + p[4] <= max } }

InitDifference ==
    /\ AppIdle
    /\ BinIdle
    /\ ViewerIdle
    /\ errors \in Tallies(MaxErrors)
    /\ fieldErrors = <<>>
    /\ viewMode = "count"
    /\ heatGrid = <<>>
    /\ diffGrid = RenderDifference(errors, fieldErrors)
    /\ cellClick = <<0, 0>>
    /\ gridLast = [op |-> "none", called |-> FALSE, cell |-> <<0, 0>>]

\* the fieldErrors prop changes: the component renders again
FieldErrorsChange ==
    /\ fieldErrors' \in Tallies(MaxField) \ {fieldErrors}
    /\ diffGrid' = RenderDifference(errors, fieldErrors')
    /\ UNCHANGED <<errors, viewMode, heatGrid, cellClick, gridLast, binVars, viewerVars, histVars,
                      appVars>>

NextDifference == FieldErrorsChange

SpecDifference == InitDifference /\ [][NextDifference]_vars

----------------------------------------------------------------------------
(* The API client (api.ts) and App (App.tsx).  An optional value is a      *)
(* sequence: <<>> for undefined / null / an absent parameter, <<v>> for v. *)

None == <<>>
Some(v) == <<v>>

\* fetchAnalysis sending min_elo and max_elo whenever the range is not the default
fetchAnalysisParamsBoth(username, minEloArg, maxEloArg) ==
    LET changed == /\ minEloArg # None
                   /\ maxEloArg # None
                   /\ <<minEloArg[1], maxEloArg[1]>> # <<DefaultMinElo, DefaultMaxElo>>
    IN [username |-> IF username # None /\ username[1] # "" THEN username ELSE None,
        min_elo |-> IF changed THEN Some(toString(minEloArg[1])) ELSE None,
        max_elo |-> IF changed THEN Some(toString(maxEloArg[1])) ELSE None]

\* fetchAnalysis, the query string: URLSearchParams built from the arguments
fetchAnalysisParams(username, minEloArg, maxEloArg) ==
    [username |-> IF username # None /\ username[1] # "" THEN username ELSE None,
     min_elo |-> IF minEloArg # None /\ minEloArg[1] > 0
                 THEN Some(toString(minEloArg[1])) ELSE None,
     max_elo |-> IF maxEloArg # None /\ maxEloArg[1] < 3000
                 THEN Some(toString(maxEloArg[1])) ELSE None]

\* what an awaited call settles to: a returned value or a thrown Error
Returned(v) == [threw |-> FALSE, message |-> "", value |-> Some(v)]
Threw(m) == [threw |-> TRUE, message |-> m, value |-> None]

\* the data of a successful analysis response: the analysis of what was asked
AnalysisOf(params) == [answers |-> params]

\* An HTTP exchange as the client sees it.  status: "ok" (2xx), "http" (any
\* other status), "network" (fetch itself rejects).  body: "json" (parses to
\* an object with the fields `error` and `data`), "empty", "garbled".
NetworkFailure ==
    [status |-> "network", body |-> "empty", error |-> None, data |-> None]
AnalysisResponses(params) ==
    { [status |-> "ok", body |-> "json", error |-> None, data |-> Some(AnalysisOf(params))],
      [status |-> "ok", body |-> "garbled", error |-> None, data |-> None],
      [status |-> "http", body |-> "json", error |-> Some("No games found"), data |-> None],
      [status |-> "http", body |-> "json", error |-> None, data |-> None],
      [status |-> "http", body |-> "empty", error |-> None, data |-> None],
      NetworkFailure }

\* response.json(): the parsed body, or the SyntaxError of JSON.parse
responseJson(response) ==
    IF response.body = "json" THEN Returned(response)
    ELSE IF response.body = "empty" THEN Threw("Unexpected end of JSON input")
    ELSE Threw("Unexpected token '<' is not valid JSON")

\* fetchAnalysis from `await fetch(url)` on
fetchAnalysis(response) ==
    IF response.status = "network" THEN Threw("Failed to fetch")
    ELSE IF response.status # "ok"
    THEN LET error == responseJson(response)
         IN IF error.threw THEN error
            ELSE Threw(IF error.value[1].error # None /\ error.value[1].error[1] # ""
                       THEN error.value[1].error[1] ELSE "Failed to fetch analysis")
    ELSE LET parsed == responseJson(response)
         IN IF parsed.threw THEN parsed ELSE Returned(parsed.value[1].data[1])

\* the player-list exchange: `players` is the field of the parsed body
PlayersResponses ==
    { [status |-> "ok", body |-> "json", players |-> Some(<<"alice", "bob">>)],
      [status |-> "ok", body |-> "json", players |-> Some(<<>>)],
      [status |-> "ok", body |-> "json", players |-> None],
      [status |-> "http", body |-> "json", players |-> None],
      [status |-> "network", body |-> "empty", players |-> None] }

\* fetchPlayers from `await fetch(...)` on
fetchPlayers(response) ==
    IF response.status = "network" THEN Threw("Failed to fetch")
    ELSE IF response.status # "ok" THEN Threw("Failed to fetch players")
    ELSE Returned(response.players)

\* the state cells of App, and the requests it has in flight
App ==
    [players |-> players, selectedPlayer |-> selectedPlayer, loading |-> loading,
     error |-> appError, analysisResult |-> analysisResult,
     fieldAverageResult |-> fieldAverageResult, minElo |-> minElo, maxElo |-> maxElo,
     selectedEvents |-> selectedEvents, showEventDetails |-> showEventDetails,
     selectedError |-> selectedError, inFlight |-> inFlight, started |-> started]

SetApp(s) ==
    /\ players' = s.players
    /\ selectedPlayer' = s.selectedPlayer
    /\ loading' = s.loading
    /\ appError' = s.error
    /\ analysisResult' = s.analysisResult
    /\ fieldAverageResult' = s.fieldAverageResult
    /\ minElo' = s.minElo
    /\ maxElo' = s.maxElo
    /\ selectedEvents' = s.selectedEvents
    /\ showEventDetails' = s.showEventDetails
    /\ selectedError' = s.selectedError
    /\ inFlight' = s.inFlight
    /\ started' = s.started

\* `await fetch(url)`: the request leaves and the caller is suspended
Send(s, kind, username, minEloArg, maxEloArg) ==
    [s EXCEPT !.started = s.started + 1,
              !.inFlight = s.inFlight \union
                  {[seq |-> s.started + 1,
                    kind |-> kind,
                    args |-> [username |-> username, minElo |-> minEloArg,
                              maxElo |-> maxEloArg],
                    params |-> IF kind = "players" THEN fetchAnalysisParams(None, None, None)
                               ELSE fetchAnalysisParams(username, minEloArg, maxEloArg)]}]

\* loadPlayers up to its await
loadPlayers(s) == Send(s, "players", None, None, None)

\* loadAnalysis(username) up to its await
loadAnalysis(s, username) ==
    Send([s EXCEPT !.loading = TRUE, !.error = None], "analysis", Some(username), None, None)

\* loadFieldAverage up to its await; minElo and maxElo are those of the render
loadFieldAverage(s) == Send(s, "field", None, Some(s.minElo), Some(s.maxElo))

\* the effect on [selectedPlayer] without its field-average fetch
selectedPlayerEffectAnalysisOnly(s) ==
    IF Len(s.players) > 0
    THEN [loadAnalysis(s, s.selectedPlayer)
             EXCEPT !.selectedEvents = <<>>,
                    !.showEventDetails = FALSE,
                    !.selectedError = NoError]
    ELSE s

\* the effect on [selectedPlayer] leaving the selection as it is
selectedPlayerEffectKeepsSelection(s) ==
    IF Len(s.players) > 0
    THEN loadFieldAverage(loadAnalysis(s, s.selectedPlayer))
    ELSE s

\* the effect on [selectedPlayer]
selectedPlayerEffect(s) ==
    IF Len(s.players) > 0
    THEN [loadFieldAverage(loadAnalysis(s, s.selectedPlayer))
             EXCEPT !.selectedEvents = <<>>,
                    !.showEventDetails = FALSE,
                    !.selectedError = NoError]
    ELSE s

\* the effect on [minElo, maxElo]
eloEffect(s) == IF Len(s.players) > 0 THEN loadFieldAverage(s) ELSE s

\* setSelectedPlayer(username) and the render that follows
setSelectedPlayer(s, username) ==
    IF username = s.selectedPlayer THEN s
    ELSE selectedPlayerEffect([s EXCEPT !.selectedPlayer = username])

\* setMinElo / setMaxElo and the render that follows
setElo(s, lo, hi) ==
    IF lo = s.minElo /\ hi = s.maxElo THEN s
    ELSE eloEffect([s EXCEPT !.minElo = lo, !.maxElo = hi])

\* the min slider without its test against maxElo
minEloChangeUnguarded(s, val) == setElo(s, val, s.maxElo)

\* onChange of the two range inputs
minEloChange(s, val) == IF val < s.maxElo THEN setElo(s, val, s.maxElo) ELSE s
maxEloChange(s, val) == IF val > s.minElo THEN setElo(s, s.minElo, val) ELSE s

\* loadPlayers storing the list without selecting its first player
loadPlayersSettledNoSelect(s, r, response) ==
    LET data == fetchPlayers(response)
        done == [s EXCEPT !.inFlight = s.inFlight \ {r}]
    IN IF data.threw THEN done
       ELSE [done EXCEPT !.players = IF data.value[1] # None THEN data.value[1][1]
                                     ELSE <<>>]

\* loadPlayers after its await
loadPlayersSettled(s, r, response) ==
    LET data == fetchPlayers(response)
        done == [s EXCEPT !.inFlight = s.inFlight \ {r}]
    IN IF data.threw THEN done
       ELSE LET list == IF data.value[1] # None THEN data.value[1][1] ELSE <<>>
                listed == [done EXCEPT !.players = list]
            IN IF Len(list) > 0 THEN setSelectedPlayer(listed, list[1]) ELSE listed

\* loadAnalysis dropping the response of a request that is no longer the
\* one for the selected player
loadAnalysisSettledGuarded(s, r, response) ==
    LET result == fetchAnalysis(response)
        done == [s EXCEPT !.inFlight = s.inFlight \ {r}, !.loading = FALSE]
    IN IF r.args.username # Some(s.selectedPlayer) THEN done
       ELSE IF result.threw
       THEN [done EXCEPT !.error = Some(IF result.message # "" THEN result.message
                                        ELSE "Failed to load analysis")]
       ELSE [done EXCEPT !.analysisResult = result.value]

\* loadAnalysis after its await: try, catch and finally
loadAnalysisSettled(s, r, response) ==
    LET result == fetchAnalysis(response)
        done == [s EXCEPT !.inFlight = s.inFlight \ {r}, !.loading = FALSE]
    IN IF result.threw
       THEN [done EXCEPT !.error = Some(IF result.message # "" THEN result.message
                                        ELSE "Failed to load analysis")]
       ELSE [done EXCEPT !.analysisResult = result.value]

\* loadFieldAverage reporting through the cells of loadAnalysis
loadFieldAverageSettledShared(s, r, response) ==
    LET result == fetchAnalysis(response)
        done == [s EXCEPT !.inFlight = s.inFlight \ {r}, !.loading = FALSE]
    IN IF result.threw THEN [done EXCEPT !.error = Some(result.message)]
       ELSE [done EXCEPT !.fieldAverageResult = result.value]

\* loadFieldAverage after its await
loadFieldAverageSettled(s, r, response) ==
    LET result == fetchAnalysis(response)
        done == [s EXCEPT !.inFlight = s.inFlight \ {r}]
    IN IF result.threw THEN done
       ELSE [done EXCEPT !.fieldAverageResult = result.value]

\* App.handleCellClick(deltaBin, tBin, events)
appHandleCellClick(s, events) ==
    [s EXCEPT !.selectedEvents = events,
              !.showEventDetails = Len(events) > 0,
              !.selectedError = NoError]

\* App.handleMoveClick(error)
appHandleMoveClick(s, event) == [s EXCEPT !.selectedError = event]

----------------------------------------------------------------------------
(* Specification of App: the user's events and the settling of the fetches *)
(* in any order.  The cells of the heatmaps and the replay of the viewer   *)
(* are followed in SpecGrid, SpecDifference and SpecReplay, not here.      *)

MaxFetches == 5                          \* requests sent in one behaviour
SliderStep == 50
\* the values a range input with min 0, max 3000 and step 50 can report
SliderPositions == { SliderStep * i : i \in 0..(DefaultMaxElo \div SliderStep) }
EloStops == SliderPositions \cap {0, 1200, 3000}     \* slider positions tried

\* the non-empty row lists a cell click can hand to App
CellLists == { <<e>> : e \in SwitchCatalog }

\* the block rendered under `analysisResult && !loading`, and the sliders
\* inside its `fieldAverageResult &&` part
HeatmapShown(s) == s.analysisResult # None /\ ~s.loading
SlidersShown(s) == HeatmapShown(s) /\ s.fieldAverageResult # None

\* App after construction and its mount effects: loadPlayers has sent its
\* request; the other two effects find no players
AppMounted ==
    loadPlayers([players |-> <<>>, selectedPlayer |-> "", loading |-> FALSE,
                 error |-> None, analysisResult |-> None, fieldAverageResult |-> None,
                 minElo |-> DefaultMinElo, maxElo |-> DefaultMaxElo,
                 selectedEvents |-> <<>>, showEventDetails |-> FALSE,
                 selectedError |-> NoError, inFlight |-> {}, started |-> 0])

InitApp ==
    /\ BinIdle
    /\ ViewerIdle
    /\ GridIdle
    /\ players = AppMounted.players
    /\ selectedPlayer = AppMounted.selectedPlayer
    /\ loading = AppMounted.loading
    /\ appError = AppMounted.error
    /\ analysisResult = AppMounted.analysisResult
    /\ fieldAverageResult = AppMounted.fieldAverageResult
    /\ minElo = AppMounted.minElo
    /\ maxElo = AppMounted.maxElo
    /\ showEventDetails = AppMounted.showEventDetails
    /\ inFlight = AppMounted.inFlight
    /\ started = AppMounted.started
    /\ appLast = NoAppOp
    /\ newest = NoRequest

\* what is recorded of the exchange that loadAnalysis settles
Seen(response) ==
    [status |-> response.status, body |-> response.body,
     error |-> IF response.status = "http" THEN response.error ELSE <<>>]

\* the player-analysis request sent last, after a step to state s: one sent
\* by the step is pending; the step that settles it records how
Newest(s, op, seq, threw) ==
    LET sent == { r \in s.inFlight : r.kind = "analysis" /\ r.seq > started }
    IN IF sent # {}
       THEN [seq |-> (CHOOSE r \in sent : TRUE).seq, outcome |-> "pending"]
       ELSE IF op = "analysis" /\ seq = newest.seq
       THEN [seq |-> seq, outcome |-> IF threw THEN "failed" ELSE "ok"]
       ELSE newest

\* App moves to state s; the player's Heatmap keeps its view mode while it
\* stays on screen and starts from 'count' when it is mounted again
AppStep(s, op, seq, threw, response) ==
    /\ s.started <= MaxFetches
    /\ SetApp(s)
    /\ viewMode' = IF HeatmapShown(App) /\ HeatmapShown(s) THEN viewMode ELSE "count"
    /\ appLast' = [op |-> op, seq |-> seq, threw |-> threw, response |-> response]
    /\ newest' = Newest(s, op, seq, threw)
    /\ UNCHANGED <<binVars, position, moveIndex, customArrows, currentEval, materialDiff,
                   baselineMaterial, histVars, errors, fieldErrors, heatGrid, diffGrid,
                   cellClick, gridLast>>

PlayersSettle ==
    \E r \in inFlight, response \in PlayersResponses :
        /\ r.kind = "players"
        /\ AppStep(loadPlayersSettled(App, r, response), "players", r.seq,
                   fetchPlayers(response).threw, NoResponse)

AnalysisSettle ==
    \E r \in inFlight :
        /\ r.kind = "analysis"
        /\ \E response \in AnalysisResponses(r.params) :
              AppStep(loadAnalysisSettled(App, r, response), "analysis", r.seq,
                      fetchAnalysis(response).threw, Seen(response))

FieldSettle ==
    \E r \in inFlight :
        /\ r.kind = "field"
        /\ \E response \in AnalysisResponses(r.params) :
              AppStep(loadFieldAverageSettled(App, r, response), "field", r.seq,
                      fetchAnalysis(response).threw, NoResponse)

\* onChange of the player <select>
SelectPlayer(username) ==
    /\ Len(players) > 0
    /\ \E i \in 1..Len(players) : players[i] = username
    /\ username # selectedPlayer
    /\ AppStep(setSelectedPlayer(App, username), "selectPlayer", 0, FALSE, NoResponse)

\* the Reload button
Reload ==
    /\ Len(players) > 0
    /\ ~loading
    /\ AppStep(loadAnalysis(App, selectedPlayer), "reload", 0, FALSE, NoResponse)

MinEloSlider(val) ==
    /\ SlidersShown(App)
    /\ val # minElo
    /\ AppStep(minEloChange(App, val), "minElo", 0, FALSE, NoResponse)

MaxEloSlider(val) ==
    /\ SlidersShown(App)
    /\ val # maxElo
    /\ AppStep(maxEloChange(App, val), "maxElo", 0, FALSE, NoResponse)

\* a click on a non-empty cell of the player's heatmap
CellClick(events) ==
    /\ HeatmapShown(App)
    /\ AppStep(appHandleCellClick(App, events), "cell", 0, FALSE, NoResponse)

\* a click on a row of the details table
MoveClick(i) ==
    /\ HeatmapShown(App)
    /\ showEventDetails
    /\ AppStep(appHandleMoveClick(App, selectedEvents[i]), "move", 0, FALSE, NoResponse)

\* the close button of the details table
CloseDetails ==
    /\ HeatmapShown(App)
    /\ showEventDetails
    /\ Len(selectedEvents) > 0
    /\ AppStep([App EXCEPT !.showEventDetails = FALSE], "close", 0, FALSE, NoResponse)

\* a button of the player heatmap's view toggle
ToggleView(mode) ==
    /\ HeatmapShown(App)
    /\ mode # viewMode
    /\ viewMode' = mode
    /\ appLast' = [op |-> "viewMode", seq |-> 0, threw |-> FALSE, response |-> NoResponse]
    /\ UNCHANGED <<binVars, viewerVars, histVars, errors, fieldErrors, heatGrid, diffGrid,
                   cellClick, gridLast, players, selectedPlayer, loading, appError, analysisResult,
                   fieldAverageResult, minElo, maxElo, showEventDetails, inFlight, started,
                   newest>>

NextApp ==
    \/ PlayersSettle
    \/ AnalysisSettle
    \/ FieldSettle
    \/ \E username \in {"alice", "bob"} : SelectPlayer(username)
    \/ Reload
    \/ \E val \in EloStops : MinEloSlider(val)
    \/ \E val \in EloStops : MaxEloSlider(val)
    \/ \E events \in CellLists : CellClick(events)
    \/ \E i \in 1..Len(selectedEvents) : MoveClick(i)
    \/ CloseDetails
    \/ \E mode \in {"count", "percentage"} : ToggleView(mode)

SpecApp == InitApp /\ [][NextApp]_vars

\* Specification of the start-up: the steps of App while few requests have
\* been sent, with every request in flight settling at some time (the
\* browser settles a fetch with a response or with a network error).
MaxStartupFetches == 4

NextStartup == NextApp /\ started' <= MaxStartupFetches

SpecStartup ==
    /\ InitApp
    /\ [][NextStartup]_vars
    /\ WF_vars(PlayersSettle)
    /\ WF_vars(AnalysisSettle)
    /\ WF_vars(FieldSettle)

----------------------------------------------------------------------------
(* Claims about the bucket classifiers (checked under SpecBins).            *)

WellFormed(e) ==
    e.delta_cp >= 100 /\ e.t_plies >= 1 /\ e.opportunity_kind \in {"cp", "mate"}

Classified == binPhase = "both"

\* C1: every well-formed event matches exactly one cell of the player
\* heatmap and exactly one cell of the difference heatmap, and the event
\* delta_cp = 250, cp, t_plies = 6 matches the cell ("100-299", "5-7") in both.
C1_ExactlyOneCell ==
    (Classified /\ WellFormed(binEvent)) =>
        /\ Cardinality(heatCells) = 1
        /\ Cardinality(diffCells) = 1
        /\ (binEvent = [delta_cp |-> 250, t_plies |-> 6, opportunity_kind |-> "cp"] =>
              heatCells = {<<1, 2>>} /\ diffCells = {<<1, 2>>})

\* C2: a mate event matches the "800+" advantage bucket and no finite-range
\* bucket, whatever its delta_cp, in the player heatmap's filter and in the
\* difference heatmap's.
C2_MateInTopBucket ==
    (Classified /\ binEvent.opportunity_kind = "mate") =>
        \A i \in 1..Len(delta_bins) :
            /\ HeatDeltaMatch(delta_bins[i], binEvent) <=> (delta_bins[i] = L800)
            /\ inDeltaBin(delta_bins[i], binEvent.delta_cp, TRUE) <=> (delta_bins[i] = L800)

\* the partition of the positive integers the time labels name
TimeRangeOf(tLabel, t) ==
    CASE tLabel = T1 -> t \in 1..3
      [] tLabel = T5 -> t \in 4..7
      [] tLabel = T9 -> t \in 8..15
      [] OTHER -> t >= 16

\* C3: in each time-axis classifier the labels "1-3", "5-7", "9-15", "17+"
\* accept exactly 1..3, 4..7, 8..15 and 16.. (so 4 lands in "5-7", 8 in
\* "9-15", 16 in "17+"), and every t_plies matches exactly one label.
C3_TimeBoundaryAbsorption ==
    Classified =>
        \A j \in 1..Len(t_bins) :
            /\ inTBin(t_bins[j], binEvent.t_plies) <=> TimeRangeOf(t_bins[j], binEvent.t_plies)
            /\ HeatTMatch(t_bins[j], binEvent) <=> TimeRangeOf(t_bins[j], binEvent.t_plies)

\* the numeric range a finite advantage label spells out
FiniteRange == [i \in 1..3 |-> <<<<100, 299>>, <<300, 499>>, <<500, 799>>>>[i]]

\* C4: a finite label "min-max" matches iff the event is not a mate and
\* min <= delta_cp <= max (both inclusive); "800+" matches iff the event is a
\* mate or delta_cp >= 800.
C4_AdvantageBuckets ==
    Classified =>
        LET isMate == binEvent.opportunity_kind = "mate"
            d == binEvent.delta_cp
        IN /\ \A i \in 1..3 :
                 LET want == ~isMate /\ FiniteRange[i][1] <= d /\ d <= FiniteRange[i][2]
                 IN /\ inDeltaBin(delta_bins[i], d, isMate) <=> want
                    /\ HeatDeltaMatch(delta_bins[i], binEvent) <=> want
           /\ inDeltaBin(L800, d, isMate) <=> (isMate \/ d >= 800)
           /\ HeatDeltaMatch(L800, binEvent) <=> (isMate \/ d >= 800)

\* what holds of the difference heatmap alone (the halves of C1..C4 that the
\* table-driven classifier meets)
DifferenceHeatmapClassifies ==
    Classified =>
        LET isMate == binEvent.opportunity_kind = "mate"
            d == binEvent.delta_cp
        IN /\ WellFormed(binEvent) => Cardinality(diffCells) = 1
           /\ \A j \in 1..Len(t_bins) :
                 inTBin(t_bins[j], binEvent.t_plies) <=> TimeRangeOf(t_bins[j], binEvent.t_plies)
           /\ \A i \in 1..3 :
                 inDeltaBin(delta_bins[i], d, isMate) <=>
                     (~isMate /\ FiniteRange[i][1] <= d /\ d <= FiniteRange[i][2])
           /\ inDeltaBin(L800, d, isMate) <=> (isMate \/ d >= 800)

----------------------------------------------------------------------------
(* Claims about the replay (checked under SpecReplay).                      *)

Mounted == selectedError # NoError

\* the position the replay table of the design gives for cursor k: fen_after,
\* then best_move_uci, then pv_moves[1..k] applied in order (Illegal when a
\* move of the chain is missing or does not apply)
RECURSIVE ExpectedPosition(_, _)
ExpectedPosition(e, k) ==
    IF k = -1 THEN e.fen_after
    ELSE IF k = 0 THEN ApplyUci(e.fen_after, e.best_move_uci)
    ELSE LET before == ExpectedPosition(e, k - 1)
         IN IF before = Illegal \/ k + 1 > Len(e.pv_moves) THEN Illegal
            ELSE ApplyUci(before, e.pv_moves[k + 1])

\* every move advance() needs up to the terminal cursor exists and applies
Playable(e) == ExpectedPosition(e, e.t_plies) # Illegal

\* C5 as stated: for any selected event t_plies + 1 advances from k = -1
\* leave the cursor at t_plies, further advances change nothing, and a
\* retreat at k = -1 changes nothing.
C5_AdvanceReachesEnd ==
    Mounted =>
        /\ advCalls = selectedError.t_plies + 1 => moveIndex = selectedError.t_plies
        /\ (lastOp.op = "next" /\ advCalls = selectedError.t_plies + 2) => View = lastOp.pre
        /\ (lastOp.op = "previous" /\ lastOp.pre.moveIndex = -1) => View = lastOp.pre

\* C5 amended: the cursor reaches t_plies after t_plies + 1 advances when
\* every move of the line exists and applies (and never passes t_plies
\* otherwise); further advances and a retreat at k = -1 change nothing.
C5_AdvanceReachesEndIfPlayable ==
    Mounted =>
        /\ advCalls = selectedError.t_plies + 1 =>
              /\ moveIndex <= selectedError.t_plies
              /\ Playable(selectedError) => moveIndex = selectedError.t_plies
        /\ (lastOp.op = "next" /\ advCalls = selectedError.t_plies + 2) => View = lastOp.pre
        /\ (lastOp.op = "previous" /\ lastOp.pre.moveIndex = -1) => View = lastOp.pre

C5_Witness ==
    /\ Mounted
    /\ Playable(selectedError)
    /\ selectedError.t_plies = MaxPlies
    /\ lastOp.op = "next"
    /\ advCalls = selectedError.t_plies + 2
    /\ moveIndex = selectedError.t_plies

\* C6: the cursor stays within [-1, t_plies] of the selected event, and a
\* call that changes the replay state moves the cursor by exactly one:
\* up for advance(), down for retreat().
C6_CursorRange ==
    Mounted =>
        /\ -1 <= moveIndex /\ moveIndex <= selectedError.t_plies
        /\ (lastOp.op = "next" /\ View # lastOp.pre) => moveIndex = lastOp.pre.moveIndex + 1
        /\ (lastOp.op = "previous" /\ View # lastOp.pre) => moveIndex = lastOp.pre.moveIndex - 1

C6_Witness ==
    /\ Mounted
    /\ lastOp.op = "next"
    /\ lastOp.pre.moveIndex = selectedError.t_plies - 1
    /\ moveIndex = selectedError.t_plies
    /\ Len(selectedError.pv_moves) > selectedError.t_plies + 1

\* C7: the shown position is fen_after at k = -1 and, for k >= 0, fen_after
\* with best_move_uci and pv_moves[1..k] applied in order, however the state
\* was reached.
C7_PositionMatchesCursor ==
    Mounted => position = ExpectedPosition(selectedError, moveIndex)

C7_Witness ==
    /\ Mounted
    /\ lastOp.op = "previous"
    /\ lastOp.pre.moveIndex = 3
    /\ moveIndex = 2
    /\ position = ExpectedPosition(selectedError, 2)

\* an advance() then a retreat() were the last two calls, from an interior state
AdvanceThenRetreat ==
    /\ Mounted
    /\ prevOp.op = "next"
    /\ lastOp.op = "previous"
    /\ prevOp.pre.moveIndex < selectedError.t_plies

\* C8 as stated: advance() then retreat() from any interior state restores
\* the cursor and the position string.
C8_RoundTrip ==
    AdvanceThenRetreat =>
        /\ moveIndex = prevOp.pre.moveIndex
        /\ position = prevOp.pre.position

\* C8 amended: the pair restores cursor and position whenever the advance()
\* moved the cursor (the move it needed exists and applied).
C8_RoundTripIfAdvanced ==
    (AdvanceThenRetreat /\ lastOp.pre.moveIndex = prevOp.pre.moveIndex + 1) =>
        /\ moveIndex = prevOp.pre.moveIndex
        /\ position = prevOp.pre.position

C8_Witness ==
    /\ AdvanceThenRetreat
    /\ prevOp.pre.moveIndex = 1
    /\ lastOp.pre.moveIndex = 2
    /\ moveIndex = 1
    /\ position = prevOp.pre.position

\* C9: a call whose move application throws leaves cursor, position,
\* evaluation, material delta and arrows exactly as they were.
C9_FailureLeavesState ==
    (Mounted /\ lastOp.threw) => View = lastOp.pre

C9_Witness ==
    /\ Mounted
    /\ lastOp.op = "next"
    /\ lastOp.threw
    /\ lastOp.pre.moveIndex >= 1
    /\ View = lastOp.pre

\* C10: whenever the cursor is at k = -1 the displayed material delta is 0.
C10_BaselineMaterialZero ==
    (Mounted /\ moveIndex = -1) => materialDiff = 0

C10_Witness ==
    /\ Mounted
    /\ lastOp.op = "previous"
    /\ lastOp.pre.moveIndex = 0
    /\ lastOp.pre.materialDiff # 0
    /\ moveIndex = -1
    /\ materialDiff = 0

\* M of the design: piece values p1 n3 b3 r5 q9 k0 summed per side, the
\* difference taken from the side that is to move in fenAfter
SideValue(board, color) ==
    LET Worth(i) ==
            IF board[i] = Empty \/ PieceColor(board[i]) # color THEN 0
            ELSE CASE PieceType(board[i]) = "p" -> 1
                   [] PieceType(board[i]) \in {"n", "b"} -> 3
                   [] PieceType(board[i]) = "r" -> 5
                   [] PieceType(board[i]) = "q" -> 9
                   [] OTHER -> 0
    IN Worth(1) + Worth(2) + Worth(3) + Worth(4)

M(fen, fenAfter) ==
    IF fenAfter.turn = "w"
    THEN SideValue(fen.board, "w") - SideValue(fen.board, "b")
    ELSE SideValue(fen.board, "b") - SideValue(fen.board, "w")

\* C11: the displayed material delta is M(current position) minus
\* M(fen_after of the selected event), both from the side to move in that
\* fen_after; after a switch of event the baseline is the new event's.
C11_MaterialDelta ==
    Mounted =>
        materialDiff = M(position, selectedError.fen_after)
                       - M(selectedError.fen_after, selectedError.fen_after)

\* a switch from a stepped replay to an event of another balance, then a step
C11_Witness ==
    /\ Mounted
    /\ prevOp.op = "select"
    /\ prevOp.pre.moveIndex >= 0
    /\ prevOp.pre.baselineMaterial # baselineMaterial
    /\ lastOp.op = "next"
    /\ moveIndex = 0
    /\ materialDiff # 0
    /\ materialDiff # M(position, selectedError.fen_after) - prevOp.pre.baselineMaterial

\* equality of two exact fractions
SameValue(a, b) == a.num * b.den = b.num * a.den

\* the evaluation the design gives for cursor k, in centipawns
EvalAt(e, k) ==
    IF k = -1 THEN Frac(e.eval_before, 1)
    ELSE IF k < Len(e.pv_evals) THEN Frac(e.pv_evals[k + 1], 1)
    ELSE Frac(e.eval_before * e.t_plies + e.delta_cp * (k + 1), e.t_plies)

\* C12: the displayed evaluation is eval_before at k = -1, pv_evals[k] for
\* 0 <= k < length(pv_evals), and eval_before + delta_cp * (k+1) / t_plies
\* for every other k.
C12_EvalLookup ==
    Mounted => SameValue(currentEval, EvalAt(selectedError, moveIndex))

\* a retreat into the fallback range, where the fallback is not an integer
C12_Witness ==
    /\ Mounted
    /\ lastOp.op = "previous"
    /\ moveIndex = 1
    /\ Len(selectedError.pv_evals) <= 1
    /\ selectedError.t_plies = 3
    /\ currentEval.den = 3
    /\ currentEval.num % 3 # 0

\* the two arrows of the design for event e
MistakeArrow(e) == <<Slice(e.move_uci, 0, 2), Slice(e.move_uci, 2, 4), BlackArrow>>
ReplyArrow(e) == <<Slice(e.best_move_uci, 0, 2), Slice(e.best_move_uci, 2, 4), BlueArrow>>

Shows(arrow) == \E i \in 1..Len(customArrows) : customArrows[i] = arrow

\* C13: in every replay state the arrow list holds the opponent's mistake
\* arrow, and it holds the best-reply arrow only at k = -1.
C13_ArrowOverlays ==
    Mounted =>
        /\ Shows(MistakeArrow(selectedError))
        /\ (selectedError.best_move_uci # <<>> /\ Shows(ReplyArrow(selectedError)))
              => moveIndex = -1

\* the replay state of a viewer freshly created for event e: the useState
\* initialisers followed by the first run of the reset effect
FreshReplay(e) == resetEffect(InitialViewerState(e), e)

\* C14: when the selected event changes, from any prior replay state, the
\* replay state becomes the initial state of the new event: cursor -1,
\* position fen_after, evaluation eval_before, material delta 0 and the
\* arrow overlay of a freshly created replay of that event.
C14_FullReset ==
    (Mounted /\ lastOp.op = "select") =>
        /\ moveIndex = -1
        /\ position = selectedError.fen_after
        /\ SameValue(currentEval, Frac(selectedError.eval_before, 1))
        /\ materialDiff = 0
        /\ customArrows = FreshReplay(selectedError).customArrows
        /\ View = FreshReplay(selectedError)

----------------------------------------------------------------------------
(* Claims about the grids (checked under SpecGrid and SpecDifference).      *)

\* the events of a collection that fall in cell c of the heatmap, and those
\* of them that were missed, as positions in the collection
InCell(c, list) ==
    { i \in 1..Len(list) :
        /\ JsGe(list[i].delta_cp, deltaBoundsOf[c[1]][1])
        /\ JsLt(list[i].delta_cp, deltaBoundsOf[c[1]][2])
        /\ JsGe(list[i].t_plies, tBoundsOf[c[2]][1])
        /\ JsLt(list[i].t_plies, tBoundsOf[c[2]][2]) }
MissedInCell(c, list) == { i \in InCell(c, list) : list[i].converted_actual = 0 }

\* n / d rounded to the nearest integer between 0 and 100 (halves go up)
Nearest(n, d) == CHOOSE r \in 0..100 : 2 * r * d - d <= 2 * n /\ 2 * n < 2 * r * d + d

\* C15 as stated: in the percentage view every cell renders
\* round(missed / total * 100) followed by "%" when it holds an event, and
\* "0%" when it holds none.
C15_PercentageText ==
    viewMode = "percentage" =>
        \A c \in Cells :
            LET total == Cardinality(InCell(c, errors))
                missed == Cardinality(MissedInCell(c, errors))
            IN heatGrid[c].text =
                  IF total = 0 THEN <<"0", "%">>
                  ELSE toString(Nearest(missed * 100, total)) \o <<"%">>

\* C16: in the count view the value of every cell is the number of events of
\* the collection that fall in the cell and have converted_actual = 0 (and a
\* value above zero is shown as that number); converted events never count.
C16_CountValue ==
    viewMode = "count" =>
        \A c \in Cells :
            /\ heatGrid[c].count = Cardinality(MissedInCell(c, errors))
            /\ heatGrid[c].count > 0 => heatGrid[c].text = toString(heatGrid[c].count)

\* a cell of four events, two of them converted, back in the count view
C16_Witness ==
    /\ viewMode = "count"
    /\ cellClick = <<1, 1>>
    /\ Cardinality(InCell(<<1, 1>>, errors)) = 4
    /\ heatGrid[<<1, 1>>].count = 2
    /\ heatGrid[<<1, 1>>].text = <<"2">>

\* C17: a cell click that reaches the selection handler hands it exactly the
\* events of that cell with converted_actual = 0, in collection order; no
\* converted event is ever in selectedEvents, in either view mode.
C17_DrillDown ==
    /\ cellClick # <<0, 0>> =>
          LET kept == MissedInCell(cellClick, errors)
              Rank(i) == Cardinality({ j \in kept : j <= i })
          IN /\ Len(selectedEvents) = Cardinality(kept)
             /\ \A i \in kept : selectedEvents[Rank(i)] = errors[i]
    /\ \A i \in 1..Len(selectedEvents) : selectedEvents[i].converted_actual = 0

\* in the percentage view, a clicked cell whose first and third events were
\* missed and whose second was converted
C17_Witness ==
    /\ viewMode = "percentage"
    /\ cellClick = <<1, 1>>
    /\ InCell(<<1, 1>>, errors) = {1, 2, 3}
    /\ errors[2].converted_actual = 1
    /\ Len(selectedEvents) = 2
    /\ selectedEvents[1].ply_index = 1
    /\ selectedEvents[2].ply_index = 3

\* the events of a collection that fall in cell c of the difference grid
InDiffCell(c, list) == { i \in 1..Len(list) : DiffCellMatch(c[1], c[2], list[i]) }
MissedInDiffCell(c, list) == { i \in InDiffCell(c, list) : list[i].converted_actual = 0 }

\* missed / total * 100 of one side in cell c, 0 when the side has no event there
Percentage(c, list) ==
    IF InDiffCell(c, list) = {} THEN Frac(0, 1)
    ELSE Frac(100 * Cardinality(MissedInDiffCell(c, list)), Cardinality(InDiffCell(c, list)))

\* a <= b for exact fractions with positive denominators
AtMost(a, b) == a.num * b.den <= b.num * a.den

\* field percentage minus player percentage in cell c
Score(c) ==
    LET f == Percentage(c, fieldErrors)
        p == Percentage(c, errors)
    IN Frac(f.num * p.den - p.num * f.den, f.den * p.den)

NoData(c) == InDiffCell(c, errors) = {} /\ InDiffCell(c, fieldErrors) = {}

\* C18: for every cell with an event on either side the score is the field's
\* percentage minus the player's (each 0 when that side has no event in the
\* cell), and the colour scale is fed the score clamped to [-50, +50].
C18_DifferentialScore ==
    \A c \in Cells :
        ~NoData(c) =>
            /\ SameValue(diffGrid[c].diff, Score(c))
            /\ SameValue(diffGrid[c].clamped,
                         IF AtMost(Frac(50, 1), Score(c)) THEN Frac(50, 1)
                         ELSE IF AtMost(Score(c), Frac(0 - 50, 1)) THEN Frac(0 - 50, 1)
                         ELSE Score(c))
            /\ AtMost(Frac(50, 1), Score(c)) => diffGrid[c].color = <<34, 197, 94>>
            /\ AtMost(Score(c), Frac(0 - 50, 1)) => diffGrid[c].color = <<239, 68, 68>>

\* one cell beyond the clamp, another with a fractional score inside it
C18_Witness ==
    /\ SameValue(diffGrid[<<1, 1>>].diff, Frac(100, 1))
    /\ diffGrid[<<1, 1>>].clamped = Frac(50, 1)
    /\ InDiffCell(<<1, 1>>, errors) # {}
    /\ SameValue(diffGrid[<<2, 2>>].diff, Frac(0 - 100, 3))
    /\ diffGrid[<<2, 2>>].text = <<"-", "3", "3", "%">>

\* C19: a cell without events on both sides is flagged as no-data, and its
\* colour and its text both differ from those of any cell with data whose
\* two percentages are equal.
C19_NoDataDistinct ==
    LET Blank == { c \in Cells : NoData(c) }
        Level == { d \in Cells \ Blank : SameValue(Score(d), Frac(0, 1)) }
    IN /\ \A c \in Blank : ~diffGrid[c].hasData
       /\ \A d \in Level : diffGrid[d].hasData
       /\ \A c \in Blank, d \in Level :
             /\ diffGrid[c].color # diffGrid[d].color
             /\ diffGrid[c].text # diffGrid[d].text

\* a cell without data next to one where both sides missed everything
C19_Witness ==
    /\ NoData(<<2, 2>>)
    /\ ~NoData(<<1, 1>>)
    /\ SameValue(Percentage(<<1, 1>>, errors), Frac(100, 1))
    /\ SameValue(Percentage(<<1, 1>>, fieldErrors), Frac(100, 1))
    /\ diffGrid[<<1, 1>>].text = <<"0", "%">>
    /\ diffGrid[<<2, 2>>].text = <<>>

\* the largest cell value of the view on screen, and 1 if that is larger
ScaleMax == SetMax({ heatGrid[c].count : c \in Cells } \cup {1})

\* C20: the intensity of every cell is its value over max(largest cell value
\* of the view, 1): the divisor is never 0 and the intensity lies in [0, 1];
\* a zero cell gets the first colour stop and a cell holding a maximum of at
\* least 1 gets the last one.
C20_ColourIntensity ==
    \A c \in Cells :
        /\ ScaleMax >= 1
        /\ heatGrid[c].intensity.den # 0
        /\ SameValue(heatGrid[c].intensity, Frac(heatGrid[c].count, ScaleMax))
        /\ 0 <= heatGrid[c].count /\ heatGrid[c].count <= ScaleMax
        /\ heatGrid[c].count = 0 => heatGrid[c].color = <<51, 65, 85>>
        /\ (heatGrid[c].count = ScaleMax /\ ScaleMax >= 1) =>
              heatGrid[c].color = <<239, 68, 68>>

\* cells of value 0, 33 and 100 in one percentage view
C20_Witness ==
    /\ viewMode = "percentage"
    /\ heatGrid[<<1, 1>>].count = 33
    /\ heatGrid[<<2, 2>>].count = 100
    /\ heatGrid[<<3, 3>>].count = 0
    /\ heatGrid[<<1, 1>>].intensity = Frac(33, 100)
    /\ heatGrid[<<1, 1>>].color \notin {<<51, 65, 85>>, <<239, 68, 68>>}
    /\ heatGrid[<<2, 2>>].color = <<239, 68, 68>>
    /\ heatGrid[<<3, 3>>].color = <<51, 65, 85>>

----------------------------------------------------------------------------
(* Claims about the fallback evaluation, the best-reply arrow and the      *)
(* missing-move case of advance() (checked under SpecReplay).              *)

\* v lies between a and b inclusive, whichever of the two is larger
Between(v, a, b) ==
    /\ (IF a < b THEN a ELSE b) * v.den <= v.num
    /\ v.num <= (IF a < b THEN b ELSE a) * v.den

\* C28: at every cursor k in [0, t_plies] at which pv_evals[k] is absent, the
\* displayed fallback evaluation lies between eval_before and
\* eval_before + delta_cp inclusive.
C28_FallbackInterpolates ==
    (Mounted /\ moveIndex >= 0 /\ moveIndex >= Len(selectedError.pv_evals))
        => Between(currentEval, selectedError.eval_before,
                   selectedError.eval_before + selectedError.delta_cp)

\* C29: whenever the cursor is -1 and the event has a non-empty
\* best_move_uci, the best-reply arrow is in the arrow overlay, however the
\* state was reached.
C29_ReplyArrowAtStart ==
    (Mounted /\ moveIndex = -1 /\ selectedError.best_move_uci # <<>>)
        => Shows(ReplyArrow(selectedError))

\* the move advance() needs at cursor k does not exist
MoveMissing(e, k) ==
    \/ k >= 0 /\ k + 1 >= Len(e.pv_moves)
    \/ k = -1 /\ e.best_move_uci = <<>>

\* C30: an advance() whose move does not exist leaves cursor, position,
\* evaluation and material delta unchanged, also below t_plies; and the
\* cursor never exceeds max(0, length(pv_moves) - 1).
C30_AdvanceWithoutMove ==
    /\ (lastOp.op = "next" /\ MoveMissing(lastOp.error, lastOp.pre.moveIndex))
          => /\ moveIndex = lastOp.pre.moveIndex
             /\ position = lastOp.pre.position
             /\ currentEval = lastOp.pre.currentEval
             /\ materialDiff = lastOp.pre.materialDiff
    /\ Mounted =>
          moveIndex <= (IF Len(selectedError.pv_moves) > 1
                        THEN Len(selectedError.pv_moves) - 1 ELSE 0)

\* an advance() below t_plies, after a successful step, that found no move
C30_Witness ==
    /\ lastOp.op = "next"
    /\ lastOp.pre.moveIndex >= 0
    /\ lastOp.pre.moveIndex < lastOp.error.t_plies
    /\ MoveMissing(lastOp.error, lastOp.pre.moveIndex)
    /\ prevOp.op = "next"
    /\ prevOp.pre.moveIndex < lastOp.pre.moveIndex
    /\ moveIndex = lastOp.pre.moveIndex

----------------------------------------------------------------------------
(* Claims about the API client and App (checked under SpecApp).            *)

\* the requests of fetchAnalysis now in flight
AnalysisRequests == { r \in inFlight : r.kind \in {"analysis", "field"} }
FieldRequests == { r \in inFlight : r.kind = "field" }

\* the caller gave a player: a non-empty username argument
PlayerGiven(r) == r.args.username # <<>> /\ r.args.username[1] # ""

\* the parameter, when sent, is the decimal text of the argument
SentAs(param, arg) == param # <<>> /\ arg # <<>> /\ DecimalValue(param[1]) = arg[1]

C22_FailureContract ==
    appLast.op = "analysis" =>
        /\ appLast.response.status = "http" =>
              /\ appLast.threw
              /\ appError = <<IF appLast.response.error \notin {<<>>, <<"">>}
                              THEN appLast.response.error[1]
                              ELSE "Failed to fetch analysis">>
        /\ appLast.response.status = "ok" => ~appLast.threw

\* the requests sent by the step, and the request settled by the step
SentNow == { r \in inFlight' : r.seq > started }
SettledNow == inFlight \ inFlight'
Succeeded == appLast'.op \in {"analysis", "field"} /\ ~appLast'.threw

\* C23: every change of the selected player (with a non-empty player list)
\* starts a new player-analysis fetch and a new field-average fetch, every
\* change of minElo or maxElo starts a new field-average fetch with the new
\* range, and each successful completion replaces the held result by the
\* response, whole.
C23_FreshFetch ==
    [][ /\ (selectedPlayer' # selectedPlayer /\ Len(players') > 0) =>
              /\ \E r \in SentNow :
                    r.kind = "analysis" /\ r.args.username = <<selectedPlayer'>>
              /\ \E r \in SentNow :
                    /\ r.kind = "field"
                    /\ r.args.minElo = <<minElo'>>
                    /\ r.args.maxElo = <<maxElo'>>
        /\ (minElo' # minElo \/ maxElo' # maxElo) =>
              \E r \in SentNow :
                    /\ r.kind = "field"
                    /\ r.args.minElo = <<minElo'>>
                    /\ r.args.maxElo = <<maxElo'>>
        /\ \A r \in SettledNow :
              Succeeded =>
                 /\ r.kind = "analysis" => analysisResult' = <<[answers |-> r.params]>>
                 /\ r.kind = "field" => fieldAverageResult' = <<[answers |-> r.params]>>
        /\ analysisResult' # analysisResult =>
              \E r \in SettledNow : r.kind = "analysis" /\ Succeeded
        /\ fieldAverageResult' # fieldAverageResult =>
              \E r \in SettledNow : r.kind = "field" /\ Succeeded
      ]_vars

\* after a switch to the second player, both fetches of the switch have
\* settled and replaced what was held
C23_Witness ==
    /\ selectedPlayer = "bob"
    /\ analysisResult = <<[answers |-> [username |-> <<"bob">>, min_elo |-> <<>>,
                                        max_elo |-> <<>>]]>>
    /\ fieldAverageResult # <<>>
    /\ inFlight = {}
    /\ appLast.op = "field"
    /\ ~appLast.threw

\* the request was superseded: what it asked for is no longer what is selected
Superseded(r) ==
    \/ r.kind = "analysis" /\ r.args.username # <<selectedPlayer>>
    \/ r.kind = "field" /\ (r.args.minElo # <<minElo>> \/ r.args.maxElo # <<maxElo>>)

\* C24: the response of a superseded request is not dropped: when it
\* arrives, also after the response of the request that superseded it, it
\* overwrites the held result (player analysis and field average alike), so
\* the result of player A can be held with player B selected and no fetch
\* in flight.
C24_StaleOverwrites ==
    [][ \A r \in SettledNow :
           (Succeeded /\ Superseded(r)) =>
              /\ r.kind = "analysis" => analysisResult' = <<[answers |-> r.params]>>
              /\ r.kind = "field" => fieldAverageResult' = <<[answers |-> r.params]>>
      ]_vars

\* no fetch in flight, bob selected, alice's analysis held: alice's response
\* arrived last
C24_Witness ==
    /\ inFlight = {}
    /\ selectedPlayer = "bob"
    /\ analysisResult = <<[answers |-> [username |-> <<"alice">>, min_elo |-> <<>>,
                                        max_elo |-> <<>>]]>>
    /\ appLast.op = "analysis"
    /\ ~appLast.threw

\* the step is the failure of a data fetch
FetchFailed == appLast'.op \in {"players", "analysis", "field"} /\ appLast'.threw

\* C25: the failure of any data fetch (player list, player analysis, field
\* average) is surfaced as the error banner and corrupts no state: the held
\* analysisResult, fieldAverageResult, players and the selection state are
\* unchanged by the failure.
C25_FailureSurfaced ==
    [][ FetchFailed =>
           /\ appError' # <<>>
           /\ UNCHANGED <<analysisResult, fieldAverageResult, players, selectedPlayer,
                          selectedEvents, showEventDetails, selectedError>>
      ]_vars

\* C26: the completion of a field-average fetch, successful or not, leaves
\* analysisResult, loading and error unchanged, and the completion of a
\* player-analysis fetch leaves fieldAverageResult, minElo and maxElo
\* unchanged, in whichever order the two complete.
C26_FetchIndependence ==
    [][ /\ appLast'.op = "field" => UNCHANGED <<analysisResult, loading, appError>>
        /\ appLast'.op = "analysis" => UNCHANGED <<fieldAverageResult, minElo, maxElo>>
      ]_vars

\* a field-average fetch has failed while the player analysis was still in
\* flight: loading is still on and no error is shown
C26_Witness ==
    /\ appLast.op = "field"
    /\ appLast.threw
    /\ loading
    /\ appError = <<>>
    /\ \E r \in inFlight : r.kind = "analysis"
    /\ analysisResult # <<>>

\* C27: right after a player switch (with a non-empty player list)
\* selectedEvents is empty, the details table is hidden and no event is
\* selected; right after a cell selection no event is selected; a change of
\* the ELO range or of the view mode leaves selectedEvents and the selected
\* event unchanged.
C27_SelectionLifecycle ==
    [][ /\ (selectedPlayer' # selectedPlayer /\ Len(players') > 0) =>
              /\ selectedEvents' = <<>>
              /\ ~showEventDetails'
              /\ selectedError' = NoError
        /\ appLast'.op = "cell" =>
              /\ selectedError' = NoError
              /\ selectedEvents' # <<>>
              /\ showEventDetails'
        /\ (minElo' # minElo \/ maxElo' # maxElo
            \/ appLast'.op \in {"minElo", "maxElo", "viewMode"}) =>
              UNCHANGED <<selectedEvents, selectedError>>
      ]_vars

\* an ELO change with the details table open and an event selected
C27_Witness ==
    /\ appLast.op \in {"minElo", "maxElo"}
    /\ minElo # DefaultMinElo \/ maxElo # DefaultMaxElo
    /\ selectedError # NoError
    /\ selectedEvents # <<>>
    /\ showEventDetails

\* C31: in every reachable state loading is true exactly when at least one
\* player-analysis fetch is in flight, also when a player switch starts a
\* second fetch before the first has completed.
C31_LoadingTracksFetch ==
    loading <=> (\E r \in inFlight : r.kind = "analysis")

\* C32: once the most recently started player-analysis request has
\* completed successfully and no request is in flight, the error banner is
\* empty, even if an earlier overlapping request failed; and the banner is
\* cleared at the start of every player-analysis request.
C32_BannerFresh ==
    /\ (inFlight = {} /\ newest.outcome = "ok") => appError = <<>>
    /\ (newest.outcome = "pending" /\ newest.seq >= started - 1
        /\ appLast.op \in {"players", "selectPlayer", "reload"}) => appError = <<>>

\* the ELO range of state s is a proper range inside 0..3000
RangeOk(s) == 0 <= s.minElo /\ s.minElo < s.maxElo /\ s.maxElo <= 3000

\* C33: after any sequence of min-slider and max-slider changes (values
\* 0..3000 in steps of 50) 0 <= minElo < maxElo <= 3000 holds, and a slider
\* event that would violate minElo < maxElo leaves both bounds unchanged
\* and starts no field-average fetch.  The handlers are tried on every
\* slider position in every state that follows a slider event, and every
\* slider step taken is looked at.
C33_EloRange ==
    /\ [](/\ RangeOk(App)
          /\ (SlidersShown(App) /\ appLast.op \in {"minElo", "maxElo"}) =>
                \A val \in SliderPositions :
                   LET lo == minEloChange(App, val)
                       hi == maxEloChange(App, val)
                   IN /\ RangeOk(lo)
                      /\ RangeOk(hi)
                      /\ val >= maxElo => (lo.minElo = minElo /\ lo.started = started)
                      /\ val <= minElo => (hi.maxElo = maxElo /\ hi.started = started))
    /\ [][ (appLast'.op \in {"minElo", "maxElo"} /\ minElo' = minElo /\ maxElo' = maxElo)
              => UNCHANGED <<inFlight, started, fieldAverageResult>> ]_vars

\* a min-slider event against the range (0, 1200) that was turned down: it
\* sent no request
C33_Witness ==
    /\ appLast.op = "minElo"
    /\ minElo = 0
    /\ maxElo = 1200
    /\ \A r \in inFlight : r.seq < started

----------------------------------------------------------------------------
(* Claim about clicks on cells without missed events (checked under        *)
(* SpecSelection).                                                          *)

\* C34: a click on a heatmap cell that holds no missed event invokes no
\* selection callback: selectedEvents, the visibility of the details table
\* and the selected event with its replay state are left unchanged.
C34_EmptyCellClick ==
    [][ (gridLast'.op = "click" /\ MissedInCell(gridLast'.cell, errors) = {}) =>
           /\ ~gridLast'.called
           /\ UNCHANGED <<selectedEvents, showEventDetails, selectedError, cellClick,
                          position, moveIndex, customArrows, currentEval, materialDiff,
                          baselineMaterial>>
      ]_vars

\* a click on a cell that holds converted events only, with the details
\* table of another cell open and one of its rows selected
C34_Witness ==
    /\ gridLast.op = "click"
    /\ MissedInCell(gridLast.cell, errors) = {}
    /\ InCell(gridLast.cell, errors) # {}
    /\ cellClick # <<0, 0>>
    /\ cellClick # gridLast.cell
    /\ selectedEvents # <<>>
    /\ showEventDetails
    /\ selectedError # NoError

----------------------------------------------------------------------------
(* Claim about the start-up (checked under SpecStartup).                   *)

\* the start-up has reached its end: the first listed player is selected,
\* both results are held and nothing is loading
StartupDone ==
    /\ Len(players) > 0
    /\ selectedPlayer = players[1]
    /\ analysisResult # <<>>
    /\ fieldAverageResult # <<>>
    /\ ~loading

\* what the claim sets aside: a fetch that did not complete successfully, a
\* player list that came back empty, or the user choosing another player
StartupExcused ==
    \/ appLast.threw
    \/ appLast.op = "players" /\ players = <<>>
    \/ appLast.op = "selectPlayer"

\* C35: if the player-list fetch succeeds with a non-empty list and every
\* started fetch completes successfully, then eventually selectedPlayer is
\* the first listed player, analysisResult and fieldAverageResult are set
\* and loading is false; while the player list is empty (also after its
\* fetch has failed) no analysis fetch is started and no banner is shown.
C35_Startup ==
    /\ <>(StartupDone \/ StartupExcused)
    /\ [](players = <<>> =>
             /\ \A r \in inFlight : r.kind = "players"
             /\ started = 1
             /\ analysisResult = <<>>
             /\ fieldAverageResult = <<>>
             /\ ~loading
             /\ appError = <<>>)

\* the end of an undisturbed start-up: three requests sent, all settled
C35_Witness ==
    /\ StartupDone
    /\ selectedPlayer = "alice"
    /\ started = 3
    /\ inFlight = {}
    /\ appError = <<>>

====
